---- MODULE Spec2Model ----
(***************************************************************************)
(* Token lifecycle of cursor_token_refresh.py (CursorTokenManager):        *)
(* get_current_tokens, check_token_expiry, refresh_access_token,           *)
(* update_token_in_db and refresh_if_needed, over the ItemTable key-value  *)
(* table of state.vscdb and the /auth/refresh endpoint.                    *)
(*                                                                         *)
(* Time.  Every timestamp is counted in hours instead of seconds (one unit *)
(* = 3600 s), so that the millisecond form of a present-day instant fits   *)
(* TLC's integers: the "seconds form" of an instant is its hour count, the *)
(* "milliseconds form" is 1000 times that, exactly as in the source, and   *)
(* every constant of the source that is a number of seconds (10**12, ten   *)
(* days, the datetime range) is divided by 3600.                           *)
(***************************************************************************)
EXTENDS Integers, Sequences, FiniteSets, TLC

VARIABLES
    store,          \* ItemTable: the rows in enumeration (rowid) order
    now,            \* the wall clock, datetime.now(), in hours since the epoch
    ticks,          \* how often the clock has advanced
    passes,         \* refresh_if_needed calls that have returned
    pc,             \* position inside refresh_if_needed
    token_info,     \* refresh_if_needed: result of get_current_tokens
    needs,          \* refresh_if_needed: result of check_token_expiry
    new_token_data, \* refresh_if_needed: result of refresh_access_token
    result,         \* return value of the pass
    log,            \* the terminal log line of the pass
    writes,         \* UPDATE statements committed by the pass
    expire_time,    \* the expiry check_token_expiry logged ("Token 过期时间")
    store0,         \* history: the table when the pass began
    checkedAt,      \* history: the clock when check_token_expiry ran
    persistedAt,    \* history: the clock when update_token_in_db ran
    dbOk,           \* history: FALSE when sqlite3 raised in get_current_tokens
    http,           \* history: what requests.post did in this pass
    fault,          \* history: the sqlite3 error update_token_in_db met
    lastRenewal,    \* history: <<clock>> when the pass before this one
                    \* renewed the token for more than ten days, else <<>>
    daemon,         \* main and start_auto_refresh: where the process is,
                    \* the jobs of the schedule module, the elapsed time
    jwt,            \* JWTAnalyzer.decode_jwt_payload: its argument and what
                    \* it returned
    conns,          \* the sqlite3 connections the process has open
    fetched,        \* update_token_in_db: rows, the result of fetchall()
    foreign         \* history: the keys another process has rewritten
                    \* since the pass began

vars == <<store, now, ticks, passes, pc, token_info, needs, new_token_data,
          result, log, writes, expire_time, store0, checkedAt, persistedAt,
          dbOk, http, fault, lastRenewal, daemon, jwt, conns, fetched,
          foreign>>

-----------------------------------------------------------------------------
(* Bounds of the model *)

MaxRecords == 2     \* rows in ItemTable
MaxTicks == 1       \* clock advances explored
MaxPasses == 2      \* refresh_if_needed passes explored

-----------------------------------------------------------------------------
(* Time *)

HoursPerDay == 24
Day == HoursPerDay
\* the injected clock's first reading: 2026-11-05 00:00, 20762 days after the epoch
Now0 == 20762 * HoursPerDay
\* one clock advance: two days
TickStep == 2 * Day
\* 10**12 seconds in hours is 277777777.78: for whole hours, x > 10**12 s
\* is x > 277777777 h
MsThreshold == 277777777
MsPerSecond == 1000
\* timedelta(days=10)
RefreshThreshold == 10 * Day
\* datetime.fromtimestamp accepts years 1..9999:
\* -62135596800 s .. 253402300799 s, in hours
MinTimestamp == 0 - (719162 * HoursPerDay)
MaxTimestamp == 2932896 * HoursPerDay + 23

-----------------------------------------------------------------------------
(* JSON scalars, as Python sees them after json.loads.  A field that is    *)
(* missing from an object is Absent; JSON null / Python None is Null.      *)

Absent == [k |-> "absent", s |-> "", n |-> 0]
Null == [k |-> "null", s |-> "", n |-> 0]
Str(x) == [k |-> "str", s |-> x, n |-> 0]
Num(x) == [k |-> "num", s |-> "", n |-> x]

\* Python truth value of a scalar: None, "" and 0 are false
Truthy(v) == \/ v.k = "str" /\ v.s # ""
             \/ v.k = "num" /\ v.n # 0

\* `x in data` for an object field
Has(v) == v.k # "absent"

\* dict[key] read through a Python variable initialised to None
OrNone(v) == IF Has(v) THEN v ELSE Null

-----------------------------------------------------------------------------
(* JSON documents stored in ItemTable values *)

Obj(a, r, e, e2, o) ==
    [k |-> "obj", accessToken |-> a, refreshToken |-> r, expiresAt |-> e,
     expires_at |-> e2, other |-> o]
\* a JSON value that is not an object (an array, a bare string, a number)
NonObj == [k |-> "nonobj", accessToken |-> Absent, refreshToken |-> Absent,
           expiresAt |-> Absent, expires_at |-> Absent, other |-> Absent]
\* the empty dict {}
EmptyObj == Obj(Absent, Absent, Absent, Absent, Absent)
NoDoc == [k |-> "none", accessToken |-> Absent, refreshToken |-> Absent,
          expiresAt |-> Absent, expires_at |-> Absent, other |-> Absent]

(* Raw column values.  A text value carries how it is serialised: "app" is *)
(* the owning application's JSON text, "py" is json.dumps output,          *)
(* "notjson" is text json.loads rejects, "empty" is the empty string.      *)
SqlNull == [sql |-> "null", fmt |-> "none", doc |-> NoDoc]
SqlInt == [sql |-> "int", fmt |-> "none", doc |-> NoDoc]
EmptyText == [sql |-> "text", fmt |-> "empty", doc |-> NoDoc]
NotJsonText == [sql |-> "text", fmt |-> "notjson", doc |-> NoDoc]
AppText(d) == [sql |-> "text", fmt |-> "app", doc |-> d]

\* Python truth value of a column value (`if value`)
ValueTruthy(v) == \/ v.sql = "int"
                  \/ v.sql = "text" /\ v.fmt # "empty"

\* json.loads(value): the document, or the exception raised
json_loads(v) ==
    IF v.sql # "text" THEN [err |-> "TypeError", doc |-> NoDoc]
    ELSE IF v.fmt \in {"notjson", "empty"}
         THEN [err |-> "JSONDecodeError", doc |-> NoDoc]
         ELSE [err |-> "none", doc |-> v.doc]

\* json.dumps(data): Python's serialisation of the document
json_dumps(d) == [sql |-> "text", fmt |-> "py", doc |-> d]

-----------------------------------------------------------------------------
(* Keys.  The SELECT of both scans keeps the rows                          *)
(* WHERE key LIKE '%auth%' OR key LIKE '%token%'.                          *)

KeysLikeAuth == {"cursorAuth/state"}
KeysLikeToken == {"workbench.tokenCache"}
KeysOther == {"telemetry.machineId"}
KeyNames == KeysLikeAuth \cup KeysLikeToken \cup KeysOther

MatchesFilter(key) == key \in KeysLikeAuth \/ key \in KeysLikeToken

RECURSIVE SelectRows(_, _)
\* cursor.fetchall(): the matching rows, in the table's enumeration order
SelectRows(rows, i) ==
    IF i > Len(rows) THEN <<>>
    ELSE IF MatchesFilter(rows[i].key)
         THEN <<rows[i]>> \o SelectRows(rows, i + 1)
         ELSE SelectRows(rows, i + 1)

-----------------------------------------------------------------------------
(* get_current_tokens *)

\* Python None, the result of a failed scan
NoTokenInfo == [ok |-> FALSE, access_token |-> Null, refresh_token |-> Null,
                expires_at |-> Null]

\* auth_data[key]: the parsed value, None for a false value, the raw text
\* when json.loads raises JSONDecodeError
AuthData(value) ==
    IF ~ValueTruthy(value) THEN NoDoc
    ELSE IF json_loads(value).err = "none" THEN json_loads(value).doc
         ELSE NoDoc

\* mutant: the loop keeps the first value found for a field (`break`-style)
ScanStep_FirstWins(acc, data) ==
    IF data.k # "obj" THEN acc
    ELSE [ok |-> TRUE,
          access_token |-> IF acc.access_token = Null /\ Has(data.accessToken)
                           THEN data.accessToken ELSE acc.access_token,
          refresh_token |-> IF acc.refresh_token = Null /\ Has(data.refreshToken)
                            THEN data.refreshToken ELSE acc.refresh_token,
          expires_at |-> IF acc.expires_at # Null THEN acc.expires_at
                         ELSE IF Has(data.expiresAt) THEN data.expiresAt
                         ELSE IF Has(data.expires_at) THEN data.expires_at
                              ELSE acc.expires_at]

\* one turn of `for key, data in auth_data.items()`
ScanStep(acc, data) ==
    IF data.k # "obj" THEN acc
    ELSE [ok |-> TRUE,
          access_token |-> IF Has(data.accessToken) THEN data.accessToken
                           ELSE acc.access_token,
          refresh_token |-> IF Has(data.refreshToken) THEN data.refreshToken
                            ELSE acc.refresh_token,
          expires_at |-> IF Has(data.expiresAt) THEN data.expiresAt
                         ELSE IF Has(data.expires_at) THEN data.expires_at
                              ELSE acc.expires_at]

RECURSIVE ScanTokens(_, _, _)
ScanTokens(rows, i, acc) ==
    IF i > Len(rows) THEN acc
    ELSE ScanTokens(rows, i + 1, ScanStep(acc, AuthData(rows[i].value)))

\* json.loads raises TypeError (not JSONDecodeError) on a non-text value,
\* which the outer handler turns into None
ScanRaises(rows) ==
    \E i \in 1..Len(rows) :
        ValueTruthy(rows[i].value) /\ json_loads(rows[i].value).err = "TypeError"

\* mutant: an empty scan is reported like a failed one (`if not rows: return None`)
get_current_tokens_NoneOnEmpty(table, connected) ==
    IF ~connected \/ ScanRaises(SelectRows(table, 1))
       \/ SelectRows(table, 1) = <<>>
    THEN NoTokenInfo
    ELSE ScanTokens(SelectRows(table, 1), 1,
                    [ok |-> TRUE, access_token |-> Null, refresh_token |-> Null,
                     expires_at |-> Null])

\* connected = FALSE: sqlite3 raises (file unreadable, no ItemTable, locked)
get_current_tokens(table, connected) ==
    IF ~connected \/ ScanRaises(SelectRows(table, 1)) THEN NoTokenInfo
    ELSE ScanTokens(SelectRows(table, 1), 1,
                    [ok |-> TRUE, access_token |-> Null, refresh_token |-> Null,
                     expires_at |-> Null])

-----------------------------------------------------------------------------
(* check_token_expiry *)

\* datetime.fromtimestamp(ts) raises outside the datetime range
FromTimestampRaises(ts) == ts < MinTimestamp \/ ts > MaxTimestamp

\* mutant: `>=` in place of `>`
IsMillis_GE(expires_at) == expires_at >= MsThreshold

\* if expires_at > 10**12: a millisecond timestamp
IsMillis(expires_at) == expires_at > MsThreshold

\* the argument of datetime.fromtimestamp, in whole hours
ExpireTime(expires_at) ==
    IF IsMillis(expires_at) THEN expires_at \div MsPerSecond ELSE expires_at

\* mutant: `<=` in place of `<`
TimeLeftBelow_LE(expires_at, clock, limit) ==
    IF IsMillis(expires_at)
    THEN expires_at - clock * MsPerSecond <= limit * MsPerSecond
    ELSE expires_at - clock <= limit

\* time_left < limit, for time_left = expire_time - now; the millisecond
\* branch is compared in thousandths, so that expires_at / 1000 stays exact
TimeLeftBelow(expires_at, clock, limit) ==
    IF IsMillis(expires_at)
    THEN expires_at - clock * MsPerSecond < limit * MsPerSecond
    ELSE expires_at - clock < limit

\* logging.info(f"Token 过期时间: {expire_time}"): the instant the value was
\* read as, or None when the function left before that line
LoggedExpireTime(expires_at) ==
    IF ~Truthy(expires_at) \/ expires_at.k # "num" THEN Null
    ELSE IF FromTimestampRaises(ExpireTime(expires_at.n)) THEN Null
    ELSE Num(ExpireTime(expires_at.n))

check_token_expiry(expires_at, clock) ==
    IF ~Truthy(expires_at) THEN TRUE
    ELSE IF expires_at.k # "num" THEN TRUE
    ELSE IF FromTimestampRaises(ExpireTime(expires_at.n)) THEN TRUE
    ELSE TimeLeftBelow(expires_at.n, clock, RefreshThreshold)

-----------------------------------------------------------------------------
(* refresh_access_token *)

\* a response body that is a JSON object
Resp(a, r, e, o) ==
    [k |-> "obj", access_token |-> a, refresh_token |-> r, expires_in |-> e,
     other |-> o]
\* a JSON body that is not an object and is true in Python (a non-empty array)
NonObjResp == [k |-> "nonobj", access_token |-> Absent, refresh_token |-> Absent,
               expires_in |-> Absent, other |-> Absent]
\* the JSON body null
NullResp == [k |-> "null", access_token |-> Absent, refresh_token |-> Absent,
             expires_in |-> Absent, other |-> Absent]
\* a body response.json() cannot parse
NotJsonBody == [k |-> "notjson", access_token |-> Absent, refresh_token |-> Absent,
                expires_in |-> Absent, other |-> Absent]
\* Python None
NoneResp == [k |-> "none", access_token |-> Absent, refresh_token |-> Absent,
             expires_in |-> Absent, other |-> Absent]

StatusOK == 200

\* what requests.post did: raised (connection error, timeout after 30 s),
\* or answered with a status and a body
HttpRaised == [raised |-> TRUE, status |-> 0, body |-> NoneResp]
\* no request has been made
NoHttp == [raised |-> FALSE, status |-> 0, body |-> NoneResp]
HttpAnswer(status, body) == [raised |-> FALSE, status |-> status, body |-> body]

\* mutant: the status code is not looked at
refresh_access_token_IgnoresStatus(response) ==
    IF response.raised THEN NoneResp
    ELSE IF response.body.k = "notjson" THEN NoneResp ELSE response.body

refresh_access_token(response) ==
    IF response.raised THEN NoneResp
    ELSE IF response.status = StatusOK
         THEN IF response.body.k = "notjson" THEN NoneResp ELSE response.body
         ELSE NoneResp

\* Python truth value of the returned object (`if not new_token_data`)
RespTruthy(d) ==
    \/ d.k = "nonobj"
    \/ d.k = "obj" /\ (Has(d.access_token) \/ Has(d.refresh_token)
                       \/ Has(d.expires_in) \/ Has(d.other))

-----------------------------------------------------------------------------
(* update_token_in_db *)

\* data['accessToken'][:20] + "..." if data['accessToken'] else "None"
\* raises TypeError for a true value that is not a string
PreviewRaises(token) == Truthy(token) /\ token.k # "str"

\* new_token_data.get('access_token', data['accessToken'])
NewAccessToken(data, new) ==
    IF Has(new.access_token) THEN new.access_token ELSE data.accessToken

\* mutant: data['refreshToken'] = new_token_data.get('refresh_token')
NewRefreshToken_AlwaysSet(data, new) ==
    IF Has(new.refresh_token) THEN new.refresh_token ELSE Null

\* the refreshToken after `if 'refresh_token' in new_token_data`
NewRefreshToken(data, new) ==
    IF Has(new.refresh_token) THEN new.refresh_token ELSE data.refreshToken

\* mutant: the `* 1000` is missing, the timestamp is written in seconds
NewExpiresAt_Seconds(data, new, clock) ==
    IF Has(new.expires_in) THEN Num(clock + new.expires_in.n)
    ELSE data.expiresAt

\* int((datetime.now() + timedelta(seconds=expires_in)).timestamp() * 1000)
NewExpiresAt(data, new, clock) ==
    IF Has(new.expires_in) THEN Num((clock + new.expires_in.n) * MsPerSecond)
    ELSE data.expiresAt

\* the dict written back for one row
UpdatedData(data, new, clock) ==
    [data EXCEPT !.accessToken = NewAccessToken(data, new),
                 !.refreshToken = NewRefreshToken(data, new),
                 !.expiresAt = NewExpiresAt(data, new, clock)]

\* `isinstance(data, dict) and 'accessToken' in data`
IsUpdatable(data) == data.k = "obj" /\ Has(data.accessToken)

\* the body of the row loop raises something other than JSONDecodeError
RowRaises(data, new) ==
    \/ PreviewRaises(data.accessToken)
    \/ new.k # "obj"
    \/ Has(new.expires_in) /\ new.expires_in.k # "num"
    \/ PreviewRaises(NewAccessToken(data, new))

\* data = json.loads(value) if value else {}
RowData(value) ==
    IF ~ValueTruthy(value) THEN EmptyObj ELSE json_loads(value).doc

\* mutant: no inner try/except, JSONDecodeError leaves the loop
RowOutcome_NoInnerTry(value, new, updateFails) ==
    IF ValueTruthy(value) /\ json_loads(value).err # "none" THEN "raise"
    ELSE IF ~IsUpdatable(RowData(value)) THEN "skip"
    ELSE IF RowRaises(RowData(value), new) \/ updateFails THEN "raise"
    ELSE "write"

(* One turn of the row loop: "skip" (the row is left alone, by `continue`  *)
(* on JSONDecodeError or because it holds no accessToken), "raise" (an     *)
(* exception leaves the loop) or "write" (the UPDATE is executed).         *)
(* updateFails: cursor.execute(UPDATE) raises (database is locked).        *)
RowOutcome(value, new, updateFails) ==
    IF ValueTruthy(value) /\ json_loads(value).err = "JSONDecodeError"
    THEN "skip"
    ELSE IF ValueTruthy(value) /\ json_loads(value).err = "TypeError"
    THEN "raise"
    ELSE IF ~IsUpdatable(RowData(value)) THEN "skip"
    ELSE IF RowRaises(RowData(value), new) \/ updateFails THEN "raise"
    ELSE "write"

RECURSIVE UpdateRows(_, _, _, _, _)
(* The row loop.  acc.pending holds the UPDATEs executed inside the open   *)
(* transaction; acc.raised is set when an exception leaves the loop.       *)
UpdateRows(rows, i, new, clock, acc) ==
    IF i > Len(rows) \/ acc.raised THEN acc
    ELSE LET outcome == RowOutcome(rows[i].value, new, acc.updateFails)
         IN IF outcome = "skip"
            THEN UpdateRows(rows, i + 1, new, clock, acc)
            ELSE IF outcome = "raise"
            THEN [acc EXCEPT !.raised = TRUE]
            ELSE UpdateRows(rows, i + 1, new, clock,
                     [acc EXCEPT !.pending = Append(@,
                          [key |-> rows[i].key,
                           value |-> json_dumps(
                               UpdatedData(RowData(rows[i].value), new, clock))])])

\* the key Cursor itself keeps the access token under
CanonicalKey == "cursorAuth/accessToken"

RECURSIVE Commit_Upsert(_, _, _)
\* mutant: INSERT OR REPLACE under the canonical key instead of UPDATE ... WHERE key
Commit_Upsert(table, pending, i) ==
    IF i > Len(pending) THEN table
    ELSE Commit_Upsert(
             IF \E j \in 1..Len(table) : table[j].key = CanonicalKey
             THEN [j \in 1..Len(table) |->
                      IF table[j].key = CanonicalKey
                      THEN [table[j] EXCEPT !.value = pending[i].value]
                      ELSE table[j]]
             ELSE Append(table, [key |-> CanonicalKey, value |-> pending[i].value]),
             pending, i + 1)

\* "UPDATE ItemTable SET value = ? WHERE key = ?" for each pending write
RECURSIVE Commit(_, _, _)
Commit(table, pending, i) ==
    IF i > Len(pending) THEN table
    ELSE Commit([j \in 1..Len(table) |->
                    IF table[j].key = pending[i].key
                    THEN [table[j] EXCEPT !.value = pending[i].value]
                    ELSE table[j]],
                pending, i + 1)

StoreFaults == {"none", "connect", "update", "commit"}

\* mutant: return True once the loop has run
UpdateReturn_Always(updated_count) == updated_count >= 0

\* return updated_count > 0
UpdateReturn(updated_count) == updated_count > 0

\* mutant: autocommit (isolation_level=None), every UPDATE is final as soon
\* as it has run
update_token_in_db_Autocommit(table, new, clock, err) ==
    LET rows == SelectRows(table, 1)
        run == UpdateRows(rows, 1, new, clock,
                   [pending |-> <<>>, raised |-> FALSE,
                    updateFails |-> (err = "update")])
    IN IF err = "connect"
       THEN [table |-> table, written |-> 0, ret |-> FALSE, exc |-> FALSE]
       ELSE IF run.raised \/ err = "commit"
       THEN [table |-> Commit(table, run.pending, 1), written |-> 0,
             ret |-> FALSE, exc |-> FALSE]
       ELSE [table |-> Commit(table, run.pending, 1),
             written |-> Len(run.pending),
             ret |-> UpdateReturn(Len(run.pending)), exc |-> FALSE]

\* mutant: without the outer try, an exception leaves the function
update_token_in_db_NoOuterTry(table, new, clock, err) ==
    LET rows == SelectRows(table, 1)
        run == UpdateRows(rows, 1, new, clock,
                   [pending |-> <<>>, raised |-> FALSE,
                    updateFails |-> (err = "update")])
    IN IF err = "connect" \/ run.raised \/ err = "commit"
       THEN [table |-> table, written |-> 0, ret |-> FALSE, exc |-> TRUE]
       ELSE [table |-> Commit(table, run.pending, 1),
             written |-> Len(run.pending),
             ret |-> UpdateReturn(Len(run.pending)), exc |-> FALSE]

(* update_token_in_db(new_token_data): the table afterwards, the number of *)
(* committed UPDATEs and the return value.  Any exception leaves the       *)
(* function before conn.commit(), so the open transaction is rolled back.  *)
update_token_in_db(table, new, clock, err) ==
    LET rows == SelectRows(table, 1)
        run == UpdateRows(rows, 1, new, clock,
                   [pending |-> <<>>, raised |-> FALSE,
                    updateFails |-> (err = "update")])
    IN IF err = "connect" \/ run.raised \/ err = "commit"
       THEN \* except Exception: return False
            [table |-> table, written |-> 0, ret |-> FALSE, exc |-> FALSE]
       ELSE [table |-> Commit(table, run.pending, 1),
             written |-> Len(run.pending),
             ret |-> UpdateReturn(Len(run.pending)), exc |-> FALSE]

-----------------------------------------------------------------------------
(* The values explored *)

Ms(t) == t * MsPerSecond

\* values of rows whose key matches the filter
MatchedValues ==
    { AppText(Obj(Str("OLD"), Str("R1"), Num(Ms(Now0 + Day)), Absent, Str("user"))),
      AppText(Obj(Str("eyJhbGciOiJIUzI1NiJ9.OLD2"), Str("R0"), Num(Ms(Now0 + 11 * Day)), Absent, Absent)),
      AppText(Obj(Str("OLD3"), Absent, Absent, Num(Now0 + 9 * Day), Str("user"))),
      AppText(Obj(Absent, Str("R1"), Absent, Absent, Absent)),
      AppText(Obj(Null, Null, Null, Absent, Absent)),
      AppText(Obj(Str("OLD4"), Absent, Num(Ms(Now0 + 11 * Day)), Absent, Absent)),
      AppText(Obj(Absent, Absent, Num(Ms(Now0 + Day)), Absent, Absent)),
      AppText(Obj(Num(123), Str("R1"), Absent, Absent, Absent)),
      AppText(NonObj),
      NotJsonText,
      EmptyText,
      SqlInt }

\* values of rows the filter does not select
OtherValues ==
    { AppText(Obj(Str("OLD"), Str("R1"), Num(Ms(Now0 + Day)), Absent, Absent)),
      NotJsonText }

ValuesFor(key) == IF MatchesFilter(key) THEN MatchedValues ELSE OtherValues

\* the keys a table may hold, in the order the table enumerates them
KeyOrder == <<"cursorAuth/state", "telemetry.machineId", "workbench.tokenCache">>

KeySeqs ==
    { ks \in UNION { [1..n -> 1..Len(KeyOrder)] : n \in 0..MaxRecords } :
        \A i \in 1..Len(ks) : \A j \in 1..Len(ks) : i < j => ks[i] < ks[j] }

Tables ==
    UNION { { [i \in 1..Len(ks) |-> [key |-> KeyOrder[ks[i]], value |-> vs[i]]] :
                vs \in { f \in [1..Len(ks) -> MatchedValues \cup OtherValues] :
                           \A i \in 1..Len(ks) :
                               f[i] \in ValuesFor(KeyOrder[ks[i]]) } } :
            ks \in KeySeqs }

ExpiresInValues == {1, 11 * Day}

\* what the endpoint may do
HttpOutcomes ==
    { HttpRaised,
      HttpAnswer(401, Resp(Absent, Absent, Absent, Str("unauthorized"))),
      HttpAnswer(401, Resp(Str("NEW"), Absent, Num(1), Absent)),
      HttpAnswer(StatusOK, NotJsonBody),
      HttpAnswer(StatusOK, NullResp),
      HttpAnswer(StatusOK, NonObjResp),
      HttpAnswer(StatusOK, Resp(Absent, Absent, Absent, Absent)),
      HttpAnswer(StatusOK, Resp(Absent, Absent, Absent, Str("error"))),
      HttpAnswer(StatusOK, Resp(Str("NEW"), Absent, Absent, Absent)),
      HttpAnswer(StatusOK, Resp(Str("NEW"), Str("R2"), Absent, Absent)) }
    \cup { HttpAnswer(StatusOK, Resp(Str("NEW"), Absent, Num(e), Absent)) :
             e \in ExpiresInValues }
    \cup { HttpAnswer(StatusOK, Resp(Str("NEW"), Str("R2"), Num(e), Absent)) :
             e \in ExpiresInValues }

-----------------------------------------------------------------------------
(* refresh_if_needed, one step per call it makes *)

NoResult == "none"

\* refresh_if_needed called on its own: there is no process around it
NoDaemon ==
    [argv |-> "none", at |-> "off", exit |-> "running", t |-> 0,
     jobs |-> <<>>, starts |-> 0, wakes |-> 0, slept |-> FALSE, ran |-> 0,
     inWake |-> 0, served |-> {}, polledAt |-> 0, prevPoll |-> 0,
     cycle |-> "none", excs |-> 0, interrupt |-> "none", cut |-> "none",
     note |-> "none"]

\* decode_jwt_payload has not been called
NoJwt == [at |-> "off", jwt_token |-> [k |-> "none", parts |-> <<>>],
          claims |-> "None", error |-> "None"]

\* no connection is open, no update is under way, nobody else writes
NoSideState ==
    /\ jwt = NoJwt
    /\ conns = {}
    /\ fetched = <<>>
    /\ foreign = {}

PassLocalsInit ==
    /\ token_info = NoTokenInfo
    /\ needs = "unset"
    /\ new_token_data = NoneResp
    /\ result = NoResult
    /\ log = "none"
    /\ writes = 0
    /\ expire_time = Null
    /\ checkedAt = 0
    /\ persistedAt = 0
    /\ dbOk = TRUE
    /\ http = NoHttp
    /\ fault = "none"

Init ==
    /\ store \in Tables
    /\ store0 = store
    /\ now = Now0
    /\ ticks = 0
    /\ passes = 0
    /\ pc = "idle"
    /\ lastRenewal = <<>>
    /\ daemon = NoDaemon
    /\ NoSideState
    /\ PassLocalsInit

\* token_info = self.get_current_tokens()
Load ==
    /\ pc = "idle"
    /\ passes < MaxPasses
    /\ \E ok \in BOOLEAN :
         /\ dbOk' = ok
         /\ token_info' = get_current_tokens(store, ok)
    /\ store0' = store
    /\ pc' = "loaded"
    /\ UNCHANGED <<store, now, ticks, passes, needs, new_token_data, result,
                   log, writes, expire_time, checkedAt, persistedAt, http,
                   fault,
                   lastRenewal, daemon,
                   jwt, conns, fetched, foreign>>

\* if not token_info: "无法获取当前 token 信息"; return False
LoadFailed ==
    /\ pc = "loaded"
    /\ ~token_info.ok
    /\ result' = "False"
    /\ log' = "NoRecordsFound"
    /\ pc' = "done"
    /\ UNCHANGED <<store, now, ticks, passes, token_info, needs, new_token_data,
                   writes, expire_time, store0, checkedAt, persistedAt, http,
                   fault, dbOk,
                   lastRenewal, daemon,
                   jwt, conns, fetched, foreign>>

\* mutant: the expiry is looked at before the refresh token
MissingRefreshToken_ExpiryFirst ==
    /\ pc = "loaded"
    /\ token_info.ok
    /\ ~Truthy(token_info.refresh_token)
    /\ IF check_token_expiry(token_info.expires_at, now)
       THEN result' = "False" /\ log' = "MissingRefreshToken"
       ELSE result' = "True" /\ log' = "NotNeeded"
    /\ pc' = "done"
    /\ UNCHANGED <<store, now, ticks, passes, token_info, needs, new_token_data,
                   writes, expire_time, store0, checkedAt, persistedAt, http,
                   fault, dbOk,
                   lastRenewal, daemon,
                   jwt, conns, fetched, foreign>>

\* if not refresh_token: "未找到 refresh token"; return False
MissingRefreshToken ==
    /\ pc = "loaded"
    /\ token_info.ok
    /\ ~Truthy(token_info.refresh_token)
    /\ result' = "False"
    /\ log' = "MissingRefreshToken"
    /\ pc' = "done"
    /\ UNCHANGED <<store, now, ticks, passes, token_info, needs, new_token_data,
                   writes, expire_time, store0, checkedAt, persistedAt, http,
                   fault, dbOk,
                   lastRenewal, daemon,
                   jwt, conns, fetched, foreign>>

\* mutant: the answer of check_token_expiry does not end the pass
Decide_AlwaysRefresh ==
    /\ pc = "loaded"
    /\ token_info.ok
    /\ Truthy(token_info.refresh_token)
    /\ checkedAt' = now
    /\ expire_time' = LoggedExpireTime(token_info.expires_at)
    /\ needs' = IF check_token_expiry(token_info.expires_at, now)
                THEN "True" ELSE "False"
    /\ pc' = "refreshing"
    /\ UNCHANGED <<store, now, ticks, passes, token_info, new_token_data,
                   writes, store0, persistedAt, http, fault, dbOk, result, log,
                   lastRenewal, daemon,
                   jwt, conns, fetched, foreign>>

\* if not self.check_token_expiry(expires_at): return True
Decide ==
    /\ pc = "loaded"
    /\ token_info.ok
    /\ Truthy(token_info.refresh_token)
    /\ checkedAt' = now
    /\ expire_time' = LoggedExpireTime(token_info.expires_at)
    /\ LET n == check_token_expiry(token_info.expires_at, now)
       IN IF n
          THEN /\ needs' = "True"
               /\ pc' = "refreshing"
               /\ UNCHANGED <<result, log>>
          ELSE /\ needs' = "False"
               /\ result' = "True"
               /\ log' = "NotNeeded"
               /\ pc' = "done"
    /\ UNCHANGED <<store, now, ticks, passes, token_info, new_token_data,
                   writes, store0, persistedAt, http, fault, dbOk,
                   lastRenewal, daemon,
                   jwt, conns, fetched, foreign>>

\* new_token_data = self.refresh_access_token(refresh_token)
Refresh ==
    /\ pc = "refreshing"
    /\ \E http_ \in HttpOutcomes :
         LET new == refresh_access_token(http_)
         IN /\ http' = http_
            /\ new_token_data' = new
            /\ IF RespTruthy(new)
               THEN /\ pc' = "persisting"
                    /\ UNCHANGED <<result, log>>
               ELSE /\ result' = "False"
                    /\ log' = "RefreshFailed"
                    /\ pc' = "done"
    /\ UNCHANGED <<store, now, ticks, passes, token_info, needs, writes,
                   expire_time, store0, checkedAt, persistedAt, fault, dbOk,
                   lastRenewal, daemon,
                   jwt, conns, fetched, foreign>>

\* if self.update_token_in_db(new_token_data): return True, else False
Persist ==
    /\ pc = "persisting"
    /\ \E fault_ \in StoreFaults :
         LET upd == update_token_in_db(store, new_token_data, now, fault_)
         IN /\ fault' = fault_
            /\ store' = upd.table
            /\ writes' = upd.written
            /\ IF upd.exc
               THEN \* refresh_if_needed has no try of its own
                    result' = "raise" /\ log' = "none"
               ELSE IF upd.ret
                    THEN result' = "True" /\ log' = "Success"
                    ELSE result' = "False" /\ log' = "NoRecordsUpdated"
    /\ persistedAt' = now
    /\ pc' = "done"
    /\ UNCHANGED <<now, ticks, passes, token_info, needs, new_token_data,
                   expire_time, store0, checkedAt, http, dbOk,
                   lastRenewal, daemon,
                   jwt, conns, fetched, foreign>>

\* the pass returns True after update_token_in_db stored an expiry more
\* than timedelta(days=10) ahead
RenewedForLong ==
    /\ log = "Success"
    /\ new_token_data.expires_in.k = "num"
    /\ new_token_data.expires_in.n > RefreshThreshold

\* the pass has returned; the next call starts from fresh locals
Return ==
    /\ pc = "done"
    /\ pc' = "idle"
    /\ passes' = passes + 1
    /\ token_info' = NoTokenInfo
    /\ needs' = "unset"
    /\ new_token_data' = NoneResp
    /\ result' = NoResult
    /\ log' = "none"
    /\ writes' = 0
    /\ expire_time' = Null
    /\ checkedAt' = 0
    /\ persistedAt' = 0
    /\ dbOk' = TRUE
    /\ http' = NoHttp
    /\ fault' = "none"
    /\ store0' = store
    /\ lastRenewal' = IF RenewedForLong THEN <<now>> ELSE <<>>
    /\ UNCHANGED <<store, now, ticks, daemon, jwt, conns, fetched, foreign>>

\* time passes between two passes and while the HTTP call is in flight
Tick ==
    /\ pc \in {"idle", "refreshing"}
    /\ ticks < MaxTicks
    /\ now' = now + TickStep
    /\ ticks' = ticks + 1
    /\ UNCHANGED <<store, passes, pc, token_info, needs, new_token_data,
                   result, log, writes, expire_time, store0, checkedAt,
                   persistedAt, http, fault, dbOk,
                   lastRenewal, daemon,
                   jwt, conns, fetched, foreign>>

Next ==
    \/ Load
    \/ LoadFailed
    \/ MissingRefreshToken
    \/ Decide
    \/ Refresh
    \/ Persist
    \/ Return
    \/ Tick

Spec == Init /\ [][Next]_vars

-----------------------------------------------------------------------------
(* refresh_if_needed as one function of what it meets: the table, the      *)
(* clock, whether the scan can read the table (ok), what requests.post     *)
(* does (response) and the sqlite3 error of the update (err).  It gives    *)
(* the return value, the terminal log line, the table afterwards, whether  *)
(* the endpoint was called and the number of committed UPDATEs.            *)

PassOutcome(ret, line, table, called, written) ==
    [ret |-> ret, log |-> line, table |-> table, called |-> called,
     written |-> written]

\* lines 226-231: the return value of update_token_in_db decides
AfterUpdate(upd) ==
    IF upd.exc
    THEN PassOutcome("raise", "none", upd.table, TRUE, upd.written)
    ELSE IF upd.ret
    THEN PassOutcome("True", "Success", upd.table, TRUE, upd.written)
    ELSE PassOutcome("False", "NoRecordsUpdated", upd.table, TRUE,
                     upd.written)

\* lines 221-226: `if not new_token_data`, else update_token_in_db
AfterRefresh(new, table, clock, err) ==
    IF ~RespTruthy(new)
    THEN PassOutcome("False", "RefreshFailed", table, TRUE, 0)
    ELSE AfterUpdate(update_token_in_db(table, new, clock, err))

\* lines 200-220: the tests on token_info, else refresh_access_token
AfterLoad(info, table, clock, response, err) ==
    IF ~info.ok
    THEN PassOutcome("False", "NoRecordsFound", table, FALSE, 0)
    ELSE IF ~Truthy(info.refresh_token)
    THEN PassOutcome("False", "MissingRefreshToken", table, FALSE, 0)
    ELSE IF ~check_token_expiry(info.expires_at, clock)
    THEN PassOutcome("True", "NotNeeded", table, FALSE, 0)
    ELSE AfterRefresh(refresh_access_token(response), table, clock, err)

refresh_if_needed(table, clock, ok, response, err) ==
    AfterLoad(get_current_tokens(table, ok), table, clock, response, err)

\* the clock when the running pass began: it advances only while the
\* request is in flight
PassBeganAt == IF needs = "unset" THEN now ELSE checkedAt

\* requests.post was called in this pass
HttpCalled == http # NoHttp

\* a pass taken step by step, with the clock standing still, ends as the
\* function says
PassIsRefreshIfNeeded ==
    (pc = "done" /\ persistedAt \in {0, PassBeganAt}) =>
        LET out == refresh_if_needed(store0, PassBeganAt, dbOk,
                       IF HttpCalled THEN http ELSE HttpRaised, fault)
        IN /\ result = out.ret
           /\ log = out.log
           /\ store = out.table
           /\ HttpCalled = out.called
           /\ writes = out.written

-----------------------------------------------------------------------------
(* Vocabulary of the properties below *)

Rows0 == 1..Len(store0)

\* row i of table t is selected by the scans and holds a JSON object
IsObjectRow(t, i) ==
    /\ MatchesFilter(t[i].key)
    /\ t[i].value.sql = "text"
    /\ t[i].value.fmt \in {"app", "py"}
    /\ t[i].value.doc.k = "obj"

\* ... a JSON object with an accessToken field
HoldsAccessToken(t, i) == IsObjectRow(t, i) /\ t[i].value.doc.accessToken.k # "absent"

\* row i is selected by the scans and its text does not parse as JSON
IsUnparseableRow(t, i) ==
    /\ MatchesFilter(t[i].key)
    /\ t[i].value.sql = "text"
    /\ t[i].value.fmt = "notjson"

\* the data model's typing of the token field: a string, or null
AccessTokensAreText ==
    \A i \in Rows0 : HoldsAccessToken(store0, i) =>
        store0[i].value.doc.accessToken.k \in {"str", "null"}

HttpFailed == HttpCalled /\ (http.raised \/ http.status # 200)
\* the endpoint answered 200 with a JSON object carrying access_token
HttpRenewed ==
    /\ HttpCalled /\ ~http.raised /\ http.status = 200
    /\ http.body.k = "obj"
    /\ http.body.access_token.k # "absent"

SameKeys(t1, t2) ==
    /\ Len(t1) = Len(t2)
    /\ \A i \in 1..Len(t1) : t1[i].key = t2[i].key

-----------------------------------------------------------------------------
(* C1: when the refresh call of a pass fails (the request raises, or the   *)
(* status is not 200), the pass returns False with the RefreshFailed log,  *)
(* commits no UPDATE, and the table is exactly what it was before.         *)
C1_FailedRefreshWritesNothing ==
    (pc = "done" /\ HttpFailed) =>
        /\ result = "False"
        /\ log = "RefreshFailed"
        /\ writes = 0
        /\ store = store0

C1_Witness ==
    /\ pc = "done"
    /\ http.status = 401
    /\ http.body.access_token.k # "absent"
    /\ \E i \in Rows0 : HoldsAccessToken(store0, i)
    /\ log = "RefreshFailed"

(* C2: after a pass that needed a refresh and got 200 with                 *)
(* {access_token: A, expires_in: E}, met no sqlite error, in a table whose *)
(* accessToken fields are strings or null and which has at least one       *)
(* selected object with an accessToken: every selected object with an      *)
(* accessToken field holds accessToken = A and expiresAt = (clock at the   *)
(* update + E) in milliseconds, and the pass returns True.                 *)
C2_AllMatchesRenewed ==
    (/\ pc = "done"
     /\ needs = "True"
     /\ HttpRenewed
     /\ http.body.expires_in.k = "num"
     /\ fault = "none"
     /\ AccessTokensAreText
     /\ \E i \in Rows0 : HoldsAccessToken(store0, i))
    =>
        /\ result = "True"
        /\ log = "Success"
        /\ SameKeys(store, store0)
        /\ \A i \in 1..Len(store) :
             (HoldsAccessToken(store0, i) \/ HoldsAccessToken(store, i)) =>
                 /\ store[i].value.doc.accessToken = http.body.access_token
                 /\ store[i].value.doc.expiresAt =
                        Num((persistedAt + http.body.expires_in.n) * 1000)

C2_Witness ==
    /\ pc = "done"
    /\ result = "True"
    /\ http.body.expires_in.k = "num"
    /\ Cardinality({i \in Rows0 : HoldsAccessToken(store0, i)}) >= 2
    /\ writes >= 2
    /\ persistedAt > checkedAt

(* C3 as stated: with no row matching the key filter, the pass returns     *)
(* False with the NoRecordsFound log and commits nothing.                  *)
NoMatchingRows == \A i \in Rows0 : ~MatchesFilter(store0[i].key)

C3_Original ==
    (pc = "done" /\ NoMatchingRows) =>
        /\ result = "False"
        /\ log = "NoRecordsFound"
        /\ writes = 0

(* C3 amended: with no row matching the key filter, the pass returns False *)
(* without calling the endpoint and without touching the table; it logs    *)
(* the missing-refresh-token failure when the scan itself succeeded, and   *)
(* NoRecordsFound only when sqlite3 raised.                                *)
C3_EmptyScanIsMissingRefreshToken ==
    (pc = "done" /\ NoMatchingRows) =>
        /\ result = "False"
        /\ writes = 0
        /\ store = store0
        /\ ~HttpCalled
        /\ log = IF dbOk THEN "MissingRefreshToken" ELSE "NoRecordsFound"

C3_Witness ==
    /\ pc = "done"
    /\ NoMatchingRows
    /\ Len(store0) > 0
    /\ dbOk
    /\ log = "MissingRefreshToken"

-----------------------------------------------------------------------------
(* Which record a TokenState field is read from *)

\* per record the scan reads expiresAt, and expires_at only without it
FieldOf(d, f) ==
    CASE f = "accessToken" -> d.accessToken
      [] f = "refreshToken" -> d.refreshToken
      [] f = "expiresAt" ->
            IF d.expiresAt.k # "absent" THEN d.expiresAt ELSE d.expires_at

Holders(t, f) ==
    {i \in 1..Len(t) : IsObjectRow(t, i) /\ FieldOf(t[i].value.doc, f).k # "absent"}

Lowest(S) == CHOOSE i \in S : \A j \in S : i <= j
Highest(S) == CHOOSE i \in S : \A j \in S : i >= j

FirstValue(t, f) ==
    IF Holders(t, f) = {} THEN Null
    ELSE FieldOf(t[Lowest(Holders(t, f))].value.doc, f)
LastValue(t, f) ==
    IF Holders(t, f) = {} THEN Null
    ELSE FieldOf(t[Highest(Holders(t, f))].value.doc, f)

\* the pass holds the TokenState that Load built from store0
Loaded == pc # "idle" /\ token_info.ok

\* Persist rewrote row i with the renewed access token (or, when the
\* response carried none, with the one the row had)
Rewritten(i) ==
    /\ store[i].key = store0[i].key
    /\ store[i].value.sql = "text"
    /\ store[i].value.fmt = "py"
    /\ store[i].value.doc.k = "obj"
    /\ store[i].value.doc.accessToken =
           IF new_token_data.access_token.k # "absent"
           THEN new_token_data.access_token
           ELSE store0[i].value.doc.accessToken

(* C4 as stated: each TokenState field is the value of the first selected  *)
(* record, in enumeration order, that has the field.                       *)
C4_Original ==
    Loaded =>
        /\ token_info.access_token = FirstValue(store0, "accessToken")
        /\ token_info.refresh_token = FirstValue(store0, "refreshToken")
        /\ token_info.expires_at = FirstValue(store0, "expiresAt")

(* C4 amended: each TokenState field is the value (null included) of the   *)
(* LAST selected record, in enumeration order, that has the field          *)
(* (expiresAt: that has expiresAt or expires_at), None when no record has  *)
(* it; and a Persist that returns True has rewritten every selected record *)
(* that has an accessToken field.                                          *)
C4_LastWinsForReadAllUpdated ==
    /\ Loaded =>
         /\ token_info.access_token = LastValue(store0, "accessToken")
         /\ token_info.refresh_token = LastValue(store0, "refreshToken")
         /\ token_info.expires_at = LastValue(store0, "expiresAt")
    /\ (pc = "done" /\ log = "Success") =>
         /\ SameKeys(store, store0)
         /\ \A i \in Rows0 : HoldsAccessToken(store0, i) => Rewritten(i)

C4_Witness ==
    /\ pc = "done"
    /\ log = "Success"
    /\ Cardinality(Holders(store0, "accessToken")) >= 2
    /\ Cardinality(Holders(store0, "refreshToken")) >= 2
    /\ FirstValue(store0, "accessToken") # LastValue(store0, "accessToken")
    /\ FirstValue(store0, "refreshToken") # LastValue(store0, "refreshToken")
    /\ token_info.refresh_token = LastValue(store0, "refreshToken")

(* C5: when the selected rows hold both objects with an accessToken        *)
(* (strings or null) and texts that do not parse as JSON, a pass whose     *)
(* refresh call returned a renewed token and which met no sqlite error     *)
(* rewrites exactly the former, leaves the raw value of every unparseable  *)
(* row as it was, and returns True.                                        *)
C5_UnparseableRowsSkipped ==
    (/\ pc = "done"
     /\ HttpRenewed
     /\ fault = "none"
     /\ AccessTokensAreText
     /\ \E i \in Rows0 : HoldsAccessToken(store0, i)
     /\ \E i \in Rows0 : IsUnparseableRow(store0, i))
    =>
        /\ result = "True"
        /\ log = "Success"
        /\ writes >= 1
        /\ SameKeys(store, store0)
        /\ \A i \in Rows0 :
             /\ IsUnparseableRow(store0, i) => store[i] = store0[i]
             /\ HoldsAccessToken(store0, i) => Rewritten(i)
             /\ ~HoldsAccessToken(store0, i) => store[i] = store0[i]

C5_Witness ==
    /\ pc = "done"
    /\ result = "True"
    /\ writes = 1
    /\ \E i \in Rows0 : IsUnparseableRow(store0, i) /\ store[i] = store0[i]
    /\ \E i \in Rows0 : HoldsAccessToken(store0, i) /\ store[i] # store0[i]

(* C8: a row that Persist changed is still the same key holding a JSON     *)
(* object; its refreshToken differs from before only if the response had   *)
(* refresh_token, its expiresAt only if the response had expires_in, and   *)
(* every field other than accessToken, refreshToken and expiresAt is as    *)
(* before.                                                                 *)
C8_OnlyTokenFieldsChange ==
    (pc = "done" /\ SameKeys(store, store0)) =>
        \A i \in Rows0 :
            store[i] # store0[i] =>
                /\ store0[i].value.doc.k = "obj"
                /\ store[i].value.doc.k = "obj"
                /\ store[i].value.doc.other = store0[i].value.doc.other
                /\ store[i].value.doc.expires_at = store0[i].value.doc.expires_at
                /\ new_token_data.refresh_token.k = "absent" =>
                       store[i].value.doc.refreshToken =
                           store0[i].value.doc.refreshToken
                /\ new_token_data.refresh_token.k # "absent" =>
                       store[i].value.doc.refreshToken =
                           new_token_data.refresh_token
                /\ new_token_data.expires_in.k = "absent" =>
                       store[i].value.doc.expiresAt =
                           store0[i].value.doc.expiresAt

C8_Witness ==
    /\ pc = "done"
    /\ log = "Success"
    /\ new_token_data.refresh_token.k = "absent"
    /\ new_token_data.expires_in.k = "absent"
    /\ \E i \in Rows0 :
         /\ store[i] # store0[i]
         /\ store0[i].value.doc.refreshToken.k = "str"
         /\ store0[i].value.doc.expiresAt.k = "num"
         /\ store0[i].value.doc.other.k = "str"

\* the keys of a table, and how many rows it has
KeySet(t) == {t[i].key : i \in 1..Len(t)}

(* C9: no step of any pass, successful or failed, creates or deletes a     *)
(* row: the table keeps its keys, in the same enumeration order.           *)
C9_KeysNeverChange ==
    [][/\ KeySet(store') = KeySet(store)
       /\ SameKeys(store', store)]_vars

C9_Witness ==
    /\ passes >= 1
    /\ pc = "done"
    /\ log = "Success"
    /\ writes >= 1
    /\ Len(store) = MaxRecords

(* C10: when the refresh call succeeded and update_token_in_db committed   *)
(* no UPDATE (no selected object has an accessToken, or sqlite3 raised),   *)
(* the pass returns False with the NoRecordsUpdated log and the table is   *)
(* unchanged; a pass that went to the endpoint returns True only if at     *)
(* least one UPDATE was committed.                                         *)
C10_ZeroWritesIsFailure ==
    /\ (pc = "done" /\ HttpCalled /\ ~HttpFailed /\ log # "RefreshFailed"
        /\ writes = 0) =>
           /\ result = "False"
           /\ log = "NoRecordsUpdated"
           /\ store = store0
    /\ (pc = "done" /\ HttpCalled /\ result = "True") =>
           /\ writes >= 1
           /\ \E i \in Rows0 : HoldsAccessToken(store0, i) /\ Rewritten(i)

C10_Witness ==
    /\ pc = "done"
    /\ HttpRenewed
    /\ fault = "none"
    /\ \E i \in Rows0 : IsObjectRow(store0, i)
    /\ ~\E i \in Rows0 : HoldsAccessToken(store0, i)
    /\ writes = 0
    /\ log = "NoRecordsUpdated"

-----------------------------------------------------------------------------
(* check_token_expiry on its own: the inputs are drawn from the sets       *)
(* below and Decide applies the function.                                  *)

\* instants, in hours since the epoch, explored in both forms:
\* 1975, just before and after 10**9 s (2001-09-09), around the clock,
\* and the year 2198
ExpiryInstants ==
    { 50000, 277777, 277778, 2000000,
      Now0 - Day, Now0 + 9 * Day, Now0 + 10 * Day - 1, Now0 + 10 * Day,
      Now0 + 10 * Day + 1, Now0 + 11 * Day, Now0 + 12 * Day }

ExpiryInputs ==
    { Null, Num(0), Num(0 - 5), Str("2026-12-01"), Str(""),
      Num(MsThreshold - 1), Num(MsThreshold), Num(MsThreshold + 1),
      Num(MaxTimestamp), Num(MaxTimestamp + 1), Num(MinTimestamp - 1),
      Num(Ms(Now0 + 10 * Day) - 1), Num(Ms(Now0 + 10 * Day) + 1) }
    \cup { Num(t) : t \in ExpiryInstants }
    \cup { Num(Ms(t)) : t \in ExpiryInstants }

ExpiryClocks == {Now0, Now0 + 1, Now0 + Day}

ExpiryInit ==
    /\ store = <<>>
    /\ store0 = <<>>
    /\ now \in ExpiryClocks
    /\ ticks = 0
    /\ passes = 0
    /\ pc = "loaded"
    /\ \E e \in ExpiryInputs :
         token_info = [ok |-> TRUE, access_token |-> Str("OLD"),
                       refresh_token |-> Str("R1"), expires_at |-> e]
    /\ needs = "unset"
    /\ new_token_data = NoneResp
    /\ result = NoResult
    /\ log = "none"
    /\ writes = 0
    /\ expire_time = Null
    /\ checkedAt = 0
    /\ persistedAt = 0
    /\ dbOk = TRUE
    /\ http = NoHttp
    /\ fault = "none"
    /\ lastRenewal = <<>>
    /\ daemon = NoDaemon
    /\ NoSideState

ExpiryNext == Decide

SpecExpiry == ExpiryInit /\ [][ExpiryNext]_vars

\* check_token_expiry has returned
Decided == needs # "unset"

ThresholdDays == {5, 10, 12}

(* needsRefresh(expiresAt, thresholdDays) as the claim states it: true     *)
(* exactly when expiresAt is absent or (expiresAt - now) < thresholdDays   *)
(* days, a value above 10**12 being milliseconds.                          *)
NeedsRefreshRule(e, days, clock) ==
    \/ e = Null
    \/ /\ e.k = "num"
       /\ IF e.n > MsThreshold
          THEN e.n - clock * 1000 < days * Day * 1000
          ELSE e.n - clock < days * Day

(* C6 as stated: for every configured threshold, the decision is           *)
(* NeedsRefreshRule(expiresAt, thresholdDays).                             *)
C6_Original ==
    Decided =>
        \A days \in ThresholdDays :
            (needs = "True") <=>
                NeedsRefreshRule(token_info.expires_at, days, checkedAt)

\* the value is no number, is zero, or denotes no date of the years 1..9999
ExpiryUnreadable(e) ==
    \/ e.k # "num"
    \/ e.n = 0
    \/ (IF e.n > MsThreshold THEN e.n \div 1000 ELSE e.n) > MaxTimestamp
    \/ (IF e.n > MsThreshold THEN e.n \div 1000 ELSE e.n) < MinTimestamp

(* C6 amended: the threshold is the fixed ten days, not a parameter.  The  *)
(* decision is true exactly when expiresAt is absent (or null, zero, no    *)
(* number, or no date of the years 1..9999) or (expiresAt - now) < 10 days *)
(* strictly; so now + 11 days gives false, now + 9 days true and absent    *)
(* true, in seconds and in milliseconds.                                   *)
C6_FixedTenDayThreshold ==
    Decided =>
        /\ (needs = "True") <=>
               \/ ExpiryUnreadable(token_info.expires_at)
               \/ NeedsRefreshRule(token_info.expires_at, 10, checkedAt)
        /\ token_info.expires_at \in {Num(checkedAt + 11 * Day),
                                      Num(1000 * (checkedAt + 11 * Day)),
                                      Num(checkedAt + 10 * Day),
                                      Num(1000 * (checkedAt + 10 * Day))}
               => needs = "False"
        /\ token_info.expires_at \in {Num(checkedAt + 9 * Day),
                                      Num(1000 * (checkedAt + 9 * Day)),
                                      Num(checkedAt + 10 * Day - 1),
                                      Num(1000 * (checkedAt + 10 * Day) - 1),
                                      Null}
               => needs = "True"

C6_Witness ==
    /\ Decided
    /\ token_info.expires_at = Num(1000 * (checkedAt + 10 * Day))
    /\ needs = "False"

\* the instant the function logs is the value itself up to 10**12 and a
\* thousandth of it above
ReadAsClaimed ==
    (token_info.expires_at.k = "num" /\ expire_time # Null) =>
        expire_time = Num(IF token_info.expires_at.n > MsThreshold
                          THEN token_info.expires_at.n \div 1000
                          ELSE token_info.expires_at.n)

-----------------------------------------------------------------------------
(* C11: when the TokenState that Load built has no refresh token (None, or *)
(* a falsy value), the pass ends with the MissingRefreshToken failure      *)
(* whatever expires_at is: check_token_expiry is not consulted, the        *)
(* endpoint is not called, no UPDATE is committed and the table is as      *)
(* before.                                                                 *)
C11_NoRefreshTokenFailsEarly ==
    (pc = "done" /\ token_info.ok /\ ~Truthy(token_info.refresh_token)) =>
        /\ result = "False"
        /\ log = "MissingRefreshToken"
        /\ needs = "unset"
        /\ ~HttpCalled
        /\ writes = 0
        /\ store = store0

\* ... with an expiry eleven days ahead, which alone would need no refresh
C11_Witness ==
    /\ pc = "done"
    /\ log = "MissingRefreshToken"
    /\ token_info.refresh_token = Null
    /\ token_info.access_token.k = "str"
    /\ token_info.expires_at = Num(Ms(Now0 + 11 * Day))
    /\ ~check_token_expiry(token_info.expires_at, now)

(* C12: when the TokenState has a refresh token and check_token_expiry     *)
(* answers False, the pass returns True with the NotNeeded log; the        *)
(* endpoint is not called, no UPDATE is committed and the table is as it   *)
(* was when the pass began.                                                *)
C12_FreshTokenIsLeftAlone ==
    (pc = "done" /\ needs = "False") =>
        /\ Truthy(token_info.refresh_token)
        /\ result = "True"
        /\ log = "NotNeeded"
        /\ ~HttpCalled
        /\ new_token_data = NoneResp
        /\ writes = 0
        /\ store = store0

C12_Witness ==
    /\ pc = "done"
    /\ needs = "False"
    /\ result = "True"
    /\ token_info.refresh_token = Str("R0")
    /\ token_info.expires_at = Num(Ms(Now0 + 11 * Day))
    /\ \E i \in Rows0 : HoldsAccessToken(store0, i)

(* C13 as stated: the refresh counts as successful only when the endpoint  *)
(* answered 200 with a JSON object containing access_token; after any      *)
(* other outcome of the call the pass returns False, commits no UPDATE and *)
(* leaves the table as it was.                                             *)
C13_Original ==
    (pc = "done" /\ HttpCalled /\ ~HttpRenewed) =>
        /\ result = "False"
        /\ writes = 0
        /\ store = store0

\* a 200 answer whose JSON object has no access_token ends in Success, the
\* rewritten rows keeping the access token they had
C13_StaleTokenCountedAsRenewal ==
    /\ pc = "done"
    /\ http.status = 200
    /\ http.body.k = "obj"
    /\ http.body.access_token.k = "absent"
    /\ result = "True"
    /\ log = "Success"
    /\ writes >= 1
    /\ \E i \in Rows0 :
         /\ HoldsAccessToken(store0, i)
         /\ store[i].value.fmt = "py"
         /\ store[i].value.doc.accessToken = store0[i].value.doc.accessToken
         /\ store[i].value.doc.accessToken = Str("OLD")

\* the steps of refresh_if_needed after the scan
PassStep == LoadFailed \/ MissingRefreshToken \/ Decide \/ Refresh \/ Persist

(* C14: whatever the table holds, whether sqlite3 raises in either scan    *)
(* or in the update, and whatever the endpoint does, no exception leaves   *)
(* refresh_if_needed: a pass that has started can always take its next     *)
(* step, and a pass that has ended returned True or False.                 *)
C14_PassReturnsBoolean ==
    /\ pc = "done" => result \in {"True", "False"}
    /\ pc \in {"loaded", "refreshing", "persisting"} => ENABLED PassStep

\* update_token_in_db met a TypeError on a non-string accessToken
C14_Witness ==
    /\ pc = "done"
    /\ result = "False"
    /\ log = "NoRecordsUpdated"
    /\ fault = "none"
    /\ \E i \in Rows0 :
         /\ HoldsAccessToken(store0, i)
         /\ store0[i].value.doc.accessToken.k = "num"
    /\ HttpRenewed
    /\ store = store0

\* the pass before this one returned True after storing an expiry more than
\* ten days ahead, no time has passed since, and the table can be read
SecondPassAtOnce ==
    /\ pc \in {"refreshing", "persisting", "done"}
    /\ lastRenewal = <<PassBeganAt>>
    /\ dbOk

(* C20 as stated: a pass that follows, with no time elapsed, a pass that   *)
(* succeeded after refreshing with expires_in above ten days calls the     *)
(* endpoint no more, commits no UPDATE and returns True.                   *)
C20_Original ==
    SecondPassAtOnce =>
        /\ pc = "done"
        /\ result = "True"
        /\ log = "NotNeeded"
        /\ ~HttpCalled
        /\ writes = 0
        /\ store = store0

\* the second pass went to the endpoint again and rewrote the rows: the
\* expiry it read is that of a later record which has no accessToken and
\* which update_token_in_db therefore never renews
C20_SecondPassRefreshesAgain ==
    /\ SecondPassAtOnce
    /\ pc = "done"
    /\ HttpCalled
    /\ log = "Success"
    /\ writes >= 1
    /\ \E i \in Rows0 :
         /\ IsObjectRow(store0, i)
         /\ ~HoldsAccessToken(store0, i)
         /\ token_info.expires_at = store0[i].value.doc.expiresAt
    /\ \E i \in Rows0 :
         /\ HoldsAccessToken(store0, i)
         /\ store0[i].value.doc.expiresAt.k = "num"
         /\ ~check_token_expiry(store0[i].value.doc.expiresAt, checkedAt)

-----------------------------------------------------------------------------
(* main and start_auto_refresh.  The daemon's time is counted in minutes   *)
(* since the process began, so that time.sleep(3600) and time.sleep(60)    *)
(* are both whole; the clock refresh_if_needed reads is Now0 plus the      *)
(* whole hours elapsed.                                                    *)
(*                                                                         *)
(* daemon.at is the position in main / start_auto_refresh:                 *)
(*   "main"      main() is about to look at sys.argv                       *)
(*   "immediate" start_auto_refresh is about to call refresh_if_needed     *)
(*   "register"  about to call schedule.every(..).days.do(..)              *)
(*   "poll"      at the top of the loop, about to call run_pending         *)
(*   "sleep"     in time.sleep(3600)                                       *)
(*   "backoff"   in time.sleep(60) of the except branch                    *)
(*   "returned"  start_auto_refresh returned after break                   *)
(*   "raised"    a KeyboardInterrupt left start_auto_refresh               *)
(*   "exited"    the process has ended                                     *)
(* daemon.jobs holds next_run of every job of the schedule module's        *)
(* default scheduler, which lives as long as the process.                  *)

MaxWakes == 3       \* run_pending calls explored
MaxStarts == 2      \* start_auto_refresh calls explored in one process

MinutesPerHour == 60
\* time.sleep(3600)
PollSleep == MinutesPerHour
\* time.sleep(60)
Backoff == 1
\* def start_auto_refresh(self, check_interval_days=5)
CheckIntervalDays == 5
Period == CheckIntervalDays * HoursPerDay * MinutesPerHour
\* a sleep stretched by the machine being suspended
Suspended == Period

ClockAt(t) == Now0 + (t \div MinutesPerHour)

Argv == {"none", "check", "daemon", "other"}

\* what the daemon's passes meet
DaemonTables ==
    { <<>>,
      <<[key |-> "cursorAuth/state",
         value |-> AppText(Obj(Str("OLD"), Str("R1"), Num(Ms(Now0 + Day)),
                               Absent, Str("user")))]>>,
      <<[key |-> "cursorAuth/state",
         value |-> AppText(Obj(Str("OLD"), Str("R1"), Num(Ms(Now0 + Day)),
                               Absent, Str("user")))],
        [key |-> "workbench.tokenCache", value |-> NotJsonText]>> }

DaemonHttp ==
    { HttpAnswer(401, Resp(Absent, Absent, Absent, Str("unauthorized"))),
      HttpAnswer(StatusOK, Resp(Str("NEW"), Absent, Num(11 * Day), Absent)) }

DaemonFaults == {"none", "commit"}

\* sys.exit(0 if success else 1) under "check"; without an argument main
\* returns after the pass, whatever it returned
ExitStatus(argv, success) ==
    IF argv = "check"
    THEN IF success = "True" THEN "0" ELSE "1"
    ELSE "0"

\* mutant: every job runs at every poll
should_run_Always(next_run, t) == TRUE

\* schedule: Job.should_run, datetime.now() >= self.next_run
should_run(next_run, t) == t >= next_run

\* schedule: run_pending calls every job that should run, one after the
\* other; each is refresh_if_needed on the table the one before left
RECURSIVE RunJobs(_, _, _, _, _, _)
RunJobs(n, table, clock, ok, response, err) ==
    IF n = 0 THEN <<>>
    ELSE LET out == refresh_if_needed(table, clock, ok, response, err)
         IN <<out>> \o RunJobs(n - 1, out.table, clock, ok, response, err)

(* Where an exception that refresh_if_needed does not catch (a             *)
(* KeyboardInterrupt, which is no Exception) can strike inside a pass:     *)
(* on entry, after requests.post returned, inside update_token_in_db       *)
(* before conn.commit(), and after the commit.                             *)
PassStages == {"entry", "called", "updating", "committed"}

\* the pass on these inputs gets as far as the stage
ReachesStage(out, stage) ==
    CASE stage = "entry" -> TRUE
      [] stage = "called" -> out.called
      [] stage = "updating" -> out.log \in {"Success", "NoRecordsUpdated"}
      [] stage = "committed" -> out.log = "Success"

\* the pass abandoned at the stage: nothing is returned; UPDATEs not yet
\* committed are rolled back when the connection is dropped
CutPass(table, out, stage) ==
    PassOutcome("raise", "none",
                IF stage = "committed" THEN out.table ELSE table,
                stage # "entry",
                IF stage = "committed" THEN out.written ELSE 0)

\* how a call of run_pending ends: it returns; an Exception or a
\* KeyboardInterrupt is raised inside a job or after the jobs
CycleWays == {"ok", "exc_in_job", "exc_after", "int_in_job", "int_after"}

\* mutant: the loop has no `except Exception`
AfterCycle_NoExcept(how) ==
    CASE how = "ok" -> "sleep"
      [] how \in {"exc_in_job", "exc_after"} -> "raised"
      [] how \in {"int_in_job", "int_after"} -> "returned"

\* the try of the loop: time.sleep(3600) after run_pending; except
\* KeyboardInterrupt: break; except Exception: time.sleep(60)
AfterCycle(how) ==
    CASE how = "ok" -> "sleep"
      [] how \in {"exc_in_job", "exc_after"} -> "backoff"
      [] how \in {"int_in_job", "int_after"} -> "returned"

\* the line the loop logs
CycleNote(how) ==
    CASE how = "ok" -> "none"
      [] how \in {"exc_in_job", "exc_after"} -> "SchedulerError"
      [] how \in {"int_in_job", "int_after"} -> "Stopped"

\* what a pass leaves in the variables of refresh_if_needed
Observe(out, response, err, before) ==
    /\ store' = out.table
    /\ store0' = before
    /\ result' = out.ret
    /\ log' = out.log
    /\ writes' = out.written
    /\ http' = IF out.called THEN response ELSE NoHttp
    /\ fault' = err

NoPass == UNCHANGED <<store, store0, result, log, writes, http, fault, passes>>

DaemonFrame ==
    UNCHANGED <<ticks, pc, token_info, needs, new_token_data, expire_time,
                checkedAt, persistedAt, dbOk, lastRenewal,
                jwt, conns, fetched, foreign>>

DaemonInit ==
    /\ store \in DaemonTables
    /\ store0 = store
    /\ now = Now0
    /\ ticks = 0
    /\ passes = 0
    /\ pc = "idle"
    /\ lastRenewal = <<>>
    /\ NoSideState
    /\ PassLocalsInit
    /\ \E a \in Argv : daemon = [NoDaemon EXCEPT !.argv = a, !.at = "main"]

\* main after its refresh_if_needed returned
OneShotEnds(out, response, err) ==
    /\ Observe(out, response, err, store)
    /\ daemon' = [daemon EXCEPT !.at = "exited", !.ran = 1,
                                !.exit = ExitStatus(daemon.argv, out.ret)]

\* main with "check" or without an argument: one refresh_if_needed
MainOneShot ==
    /\ daemon.at = "main"
    /\ daemon.argv \in {"none", "check"}
    /\ \E ok \in BOOLEAN, response \in DaemonHttp, err \in DaemonFaults :
         OneShotEnds(refresh_if_needed(store, now, ok, response, err),
                     response, err)
    /\ passes' = passes + 1
    /\ UNCHANGED now
    /\ DaemonFrame

\* main with an argument that is neither "check" nor "daemon"
MainUnknown ==
    /\ daemon.at = "main"
    /\ daemon.argv = "other"
    /\ daemon' = [daemon EXCEPT !.at = "exited", !.exit = "0"]
    /\ NoPass
    /\ UNCHANGED now
    /\ DaemonFrame

\* main with "daemon": manager.start_auto_refresh()
MainDaemon ==
    /\ daemon.at = "main"
    /\ daemon.argv = "daemon"
    /\ daemon' = [daemon EXCEPT !.at = "immediate", !.starts = 1]
    /\ NoPass
    /\ UNCHANGED now
    /\ DaemonFrame

\* the call before the loop returned, or a KeyboardInterrupt struck in it
ImmediateEnds(full, response, err, interrupted, stage) ==
    IF interrupted
    THEN /\ ReachesStage(full, stage)
         /\ Observe(CutPass(store, full, stage), response, err, store)
         /\ passes' = passes
         /\ daemon' = [daemon EXCEPT !.at = "raised", !.ran = 1,
                                     !.interrupt = "startup", !.cut = stage]
    ELSE /\ Observe(full, response, err, store)
         /\ passes' = passes + 1
         /\ daemon' = [daemon EXCEPT !.at = "register", !.ran = 1]

\* self.refresh_if_needed() before the loop, outside any try
StartImmediate ==
    /\ daemon.at = "immediate"
    /\ \E ok \in BOOLEAN, response \in DaemonHttp, err \in DaemonFaults,
          interrupted \in BOOLEAN :
       \E stage \in IF interrupted THEN PassStages ELSE {"entry"} :
         ImmediateEnds(refresh_if_needed(store, now, ok, response, err),
                       response, err, interrupted, stage)
    /\ UNCHANGED now
    /\ DaemonFrame

\* schedule.every(check_interval_days).days.do(self.refresh_if_needed)
Register ==
    /\ daemon.at = "register"
    /\ daemon' = [daemon EXCEPT !.at = "poll",
                                !.jobs = Append(@, daemon.t + Period),
                                !.polledAt = daemon.t]
    /\ NoPass
    /\ UNCHANGED now
    /\ DaemonFrame

(* schedule.run_pending() ending the way `how` says, the jobs in `due`     *)
(* being those that should run and outs the outcomes of calling them in    *)
(* turn.  A job in which an exception strikes is not rescheduled and the   *)
(* jobs after it are not called.  Gives whether this way of ending can     *)
(* happen, the outcomes of the passes called, the table before the last    *)
(* of them, and next_run of every job afterwards.                          *)
RunEnds(jobs, t, table, due, outs, how, stage) ==
    IF how \in {"exc_in_job", "int_in_job"}
    THEN IF due = {}
         THEN [possible |-> FALSE, outs |-> <<>>, before |-> table,
               jobs |-> jobs, returned |-> 0, served |-> {}]
         ELSE [possible |-> ReachesStage(outs[1], stage),
               outs |-> <<CutPass(table, outs[1], stage)>>,
               before |-> table, jobs |-> jobs, returned |-> 0,
               served |-> {jobs[i] : i \in due}]
    ELSE [possible |-> TRUE,
          outs |-> outs,
          before |-> IF Len(outs) <= 1 THEN table
                     ELSE outs[Len(outs) - 1].table,
          jobs |-> [i \in DOMAIN jobs |->
                      IF i \in due THEN t + Period ELSE jobs[i]],
          returned |-> Len(outs),
          served |-> {jobs[i] : i \in due}]

\* the jobs for which should_run holds
DueJobs(jobs, t) == {i \in DOMAIN jobs : should_run(jobs[i], t)}

run_pending(jobs, t, table, clock, ok, response, err, how, stage) ==
    RunEnds(jobs, t, table, DueJobs(jobs, t),
            RunJobs(Cardinality(DueJobs(jobs, t)), table, clock, ok,
                    response, err),
            how, stage)

\* the loop after run_pending ended the way `how` says
PollEnds(run, response, err, how, stage) ==
    /\ run.possible
    /\ IF run.outs = <<>>
       THEN NoPass
       ELSE /\ Observe(run.outs[Len(run.outs)], response, err, run.before)
            /\ passes' = passes + run.returned
    /\ daemon' =
         [daemon EXCEPT
            !.wakes = @ + 1,
            !.jobs = run.jobs,
            !.inWake = Len(run.outs),
            !.ran = @ + Len(run.outs),
            !.served = run.served,
            !.prevPoll = daemon.polledAt,
            !.polledAt = daemon.t,
            !.cycle = how,
            !.excs = IF how \in {"exc_in_job", "exc_after"} THEN 1 ELSE @,
            !.at = AfterCycle(how),
            !.note = CycleNote(how),
            !.interrupt = IF how \in {"int_in_job", "int_after"}
                          THEN "poll" ELSE @,
            !.cut = IF how \in {"exc_in_job", "int_in_job"}
                    THEN stage ELSE "none"]

\* one turn of the loop up to the sleep: schedule.run_pending()
Poll ==
    /\ daemon.at = "poll"
    /\ daemon.wakes < MaxWakes
    /\ \E ok \in BOOLEAN, response \in DaemonHttp, err \in DaemonFaults,
          how \in CycleWays :
       \E stage \in IF how \in {"exc_in_job", "int_in_job"}
                    THEN PassStages ELSE {"entry"} :
         PollEnds(run_pending(daemon.jobs, daemon.t, store, now, ok,
                              response, err, how, stage),
                  response, err, how, stage)
    /\ UNCHANGED now
    /\ DaemonFrame

\* time.sleep(3600) returns
Sleep ==
    /\ daemon.at = "sleep"
    /\ \E d \in {PollSleep, Suspended} :
         /\ daemon' = [daemon EXCEPT !.at = "poll", !.t = @ + d,
                                     !.slept = TRUE]
         /\ now' = ClockAt(daemon.t + d)
    /\ NoPass
    /\ DaemonFrame

\* KeyboardInterrupt in time.sleep(3600): logged, break
InterruptSleep ==
    /\ daemon.at = "sleep"
    /\ daemon' = [daemon EXCEPT !.at = "returned", !.interrupt = "sleep",
                                !.note = "Stopped"]
    /\ NoPass
    /\ UNCHANGED now
    /\ DaemonFrame

\* time.sleep(60) of the except branch returns
BackoffSleep ==
    /\ daemon.at = "backoff"
    /\ daemon' = [daemon EXCEPT !.at = "poll", !.t = @ + Backoff,
                                !.slept = TRUE]
    /\ now' = ClockAt(daemon.t + Backoff)
    /\ NoPass
    /\ DaemonFrame

\* KeyboardInterrupt in time.sleep(60): the handler has no try around it
InterruptBackoff ==
    /\ daemon.at = "backoff"
    /\ daemon' = [daemon EXCEPT !.at = "raised", !.interrupt = "backoff"]
    /\ NoPass
    /\ UNCHANGED now
    /\ DaemonFrame

\* start_auto_refresh is called again in the process it has left
StartAgain ==
    /\ daemon.at \in {"returned", "raised"}
    /\ daemon.starts < MaxStarts
    /\ daemon' = [daemon EXCEPT !.at = "immediate", !.starts = @ + 1,
                                !.slept = FALSE, !.ran = 0, !.inWake = 0,
                                !.served = {}, !.cycle = "none", !.excs = 0,
                                !.interrupt = "none", !.cut = "none",
                                !.note = "none"]
    /\ NoPass
    /\ UNCHANGED now
    /\ DaemonFrame

\* main returns, or the KeyboardInterrupt reaches the interpreter
ProcessExit ==
    /\ daemon.at \in {"returned", "raised"}
    /\ daemon' = [daemon EXCEPT !.at = "exited",
                                !.exit = IF daemon.at = "returned"
                                         THEN "0" ELSE "interrupt"]
    /\ NoPass
    /\ UNCHANGED now
    /\ DaemonFrame

DaemonNext ==
    \/ MainOneShot
    \/ MainUnknown
    \/ MainDaemon
    \/ StartImmediate
    \/ Register
    \/ Poll
    \/ Sleep
    \/ InterruptSleep
    \/ BackoffSleep
    \/ InterruptBackoff
    \/ StartAgain
    \/ ProcessExit

SpecDaemon == DaemonInit /\ [][DaemonNext]_vars

-----------------------------------------------------------------------------
(* Properties of main and start_auto_refresh *)

\* inside the `while True` of start_auto_refresh
InLoop == daemon.at \in {"poll", "sleep", "backoff"}

\* the step is a call of run_pending
PollStep == daemon.at = "poll" /\ daemon'.wakes # daemon.wakes

(* C15: in the loop of start_auto_refresh a cycle whose pass returned      *)
(* False goes on to the hourly sleep, and a cycle in which an Exception    *)
(* was raised is logged and goes to the 60 s sleep, after which the loop   *)
(* polls again; the loop is left only when a KeyboardInterrupt arrived,    *)
(* and while it sleeps it can always go on.                                *)
C15_FailedCycleKeepsLooping ==
    /\ [][/\ (InLoop /\ ~InLoop') => daemon'.interrupt # "none"
          /\ (PollStep /\ daemon'.cycle = "ok") => daemon'.at = "sleep"
          /\ (PollStep /\ daemon'.cycle \in {"exc_in_job", "exc_after"}) =>
                 /\ daemon'.at = "backoff"
                 /\ daemon'.note = "SchedulerError"
          /\ (daemon.at = "backoff" /\ daemon'.at # "backoff"
              /\ daemon'.interrupt = "none") =>
                 /\ daemon'.at = "poll"
                 /\ daemon'.t = daemon.t + Backoff
         ]_vars
    /\ [](daemon.at \in {"sleep", "backoff"} => ENABLED (Sleep \/ BackoffSleep))

\* back at the top of the loop after a cycle in which an exception struck
\* inside a pass that had already called the endpoint
C15_Witness ==
    /\ daemon.at = "poll"
    /\ daemon.cycle = "exc_in_job"
    /\ daemon.cut = "called"
    /\ daemon.note = "SchedulerError"
    /\ daemon.t = daemon.polledAt + Backoff
    /\ daemon.interrupt = "none"

(* C16: in a process that starts recurring mode once, refresh_if_needed is *)
(* called once before the job is registered and before any sleep; one job  *)
(* is registered; a scheduled run happens at a poll at or after its due    *)
(* time and, no exception having struck, at the first such poll; a poll    *)
(* that returned leaves no job due, and the job it ran is due again one    *)
(* period (5 days) after that poll.                                        *)
C16_ImmediateThenPeriodic ==
    daemon.starts = 1 =>
        /\ daemon.at = "immediate" => (~daemon.slept /\ daemon.ran = 0)
        /\ daemon.at = "register" => (~daemon.slept /\ daemon.ran = 1)
        /\ daemon.slept => daemon.ran >= 1
        /\ InLoop => Len(daemon.jobs) = 1
        /\ \A d \in daemon.served :
             /\ d <= daemon.polledAt
             /\ daemon.excs = 0 => daemon.prevPoll < d
        /\ daemon.at = "sleep" =>
             /\ \A i \in DOMAIN daemon.jobs : daemon.jobs[i] > daemon.t
             /\ daemon.served # {} =>
                    daemon.jobs[1] = daemon.polledAt + 5 * 24 * 60

\* the job ran at the first poll after it fell due, two polls after start
C16_Witness ==
    /\ daemon.starts = 1
    /\ daemon.at = "sleep"
    /\ daemon.wakes = 3
    /\ daemon.inWake = 1
    /\ daemon.served # {}
    /\ daemon.excs = 0
    /\ \A d \in daemon.served : daemon.prevPoll < d /\ d < daemon.polledAt

(* C17 as stated: whatever start of recurring mode the loop belongs to,    *)
(* one call of run_pending (one wake) invokes refresh_if_needed at most    *)
(* once.                                                                   *)
C17_Original == daemon.inWake <= 1

\* in a loop started after an earlier one was interrupted, both the job of
\* the first start and the job of the second ran in one wake
C17_TwoPassesInOneWake ==
    /\ daemon.starts = 2
    /\ Len(daemon.jobs) = 2
    /\ daemon.inWake = 2
    /\ daemon.cycle = "ok"

(* C18 as stated: when the KeyboardInterrupt arrives inside a poll tick,   *)
(* at start-up or in the loop, no pass is cut short: the tick is finished  *)
(* before the daemon leaves.                                               *)
C18_Original ==
    daemon.interrupt \in {"startup", "poll"} => daemon.cut = "none"

\* the interrupt struck after the endpoint had answered with a renewed
\* token and before update_token_in_db: the loop was left at once and the
\* table still holds the old token
C18_RenewedTokenDropped ==
    /\ daemon.interrupt = "poll"
    /\ daemon.at = "returned"
    /\ daemon.cut = "called"
    /\ http.status = 200
    /\ http.body.access_token = Str("NEW")
    /\ writes = 0
    /\ store = store0
    /\ \E i \in 1..Len(store) : store[i].value.doc.accessToken = Str("OLD")

(* C19 as stated: when main ran a single pass and the process has ended,   *)
(* the exit status is 0 exactly when the pass returned True.               *)
C19_Original ==
    (daemon.at = "exited" /\ daemon.argv \in {"none", "check"}) =>
        ((daemon.exit = "0") <=> (result = "True"))

\* started without an argument, the pass returned False and the process
\* ended with status 0
C19_FailureExitsZero ==
    /\ daemon.at = "exited"
    /\ daemon.argv = "none"
    /\ daemon.ran = 1
    /\ result = "False"
    /\ daemon.exit = "0"

-----------------------------------------------------------------------------
(* The log stream.  A line is the format string that produced it and the   *)
(* texts interpolated into it; the fixed part of a format holds no token.  *)

\* data['accessToken'][:20]
PreviewLen == 20

LogLine(fmt, args) == [fmt |-> fmt, args |-> args]

\* data['accessToken'][:20] + "..." if data['accessToken'] else "None"
Preview(token) ==
    IF Truthy(token)
    THEN SubSeq(token.s, 1, IF Len(token.s) < PreviewLen THEN Len(token.s)
                            ELSE PreviewLen) \o "..."
    ELSE "None"

RECURSIVE UpdateLog(_, _, _, _)
\* logging.info(f"更新 {key}: {old_token} -> {new_token}"), once per row
\* whose UPDATE ran, up to the row that leaves the loop
UpdateLog(rows, i, new, updateFails) ==
    IF i > Len(rows) THEN <<>>
    ELSE IF RowOutcome(rows[i].value, new, updateFails) = "skip"
    THEN UpdateLog(rows, i + 1, new, updateFails)
    ELSE IF RowOutcome(rows[i].value, new, updateFails) = "raise"
    THEN <<>>
    ELSE <<LogLine("update",
               <<rows[i].key,
                 Preview(RowData(rows[i].value).accessToken),
                 Preview(NewAccessToken(RowData(rows[i].value), new))>>)>>
         \o UpdateLog(rows, i + 1, new, updateFails)

\* response.text: the body as received, every field of it included
BodyText(body) ==
    IF body.k = "obj"
    THEN "{" \o body.access_token.s \o "," \o body.refresh_token.s \o ","
         \o body.other.s \o "}"
    ELSE body.k

\* the lines of refresh_access_token: "Token 刷新成功",
\* f"Token 刷新失败: {response.status_code}, {response.text}" or
\* f"刷新 token 时发生错误: {e}"
RefreshLog(response) ==
    IF response.raised THEN <<LogLine("refresh_error", <<"ConnectionError">>)>>
    ELSE IF response.status = StatusOK
    THEN IF response.body.k = "notjson"
         THEN <<LogLine("refresh_error", <<"JSONDecodeError">>)>>
         ELSE <<LogLine("refresh_ok", <<>>)>>
    ELSE <<LogLine("refresh_failed", <<BodyText(response.body)>>)>>

\* update_token_in_db was called in this pass and has returned
Persisted == pc = "done" /\ log \in {"Success", "NoRecordsUpdated"}

\* the lines with interpolated text the pass has emitted so far
PassLog ==
    (IF HttpCalled THEN RefreshLog(http) ELSE <<>>)
    \o (IF Persisted /\ fault # "connect"
        THEN UpdateLog(SelectRows(store0, 1), 1, new_token_data,
                       fault = "update")
        ELSE <<>>)

\* text occurs in line as a contiguous part of one interpolated text
Contains(line, text) ==
    \E a \in 1..Len(line.args) :
        \E i \in 0..(Len(line.args[a]) - Len(text)) :
            SubSeq(line.args[a], i + 1, i + Len(text)) = text

\* the access and refresh tokens the pass has seen: those of the selected
\* rows and those of the response
TokensSeen ==
    { t \in { RowData(store0[i].value).accessToken : i \in Rows0 }
          \cup { RowData(store0[i].value).refreshToken : i \in Rows0 }
          \cup (IF HttpCalled THEN {http.body.access_token,
                                    http.body.refresh_token} ELSE {}) :
        t.k = "str" /\ t.s # "" }

(* C21 as stated: no log line of a pass, successful or failed, contains a  *)
(* whole access token or refresh token, whatever the token's length.       *)
C21_Original ==
    \A n \in 1..Len(PassLog) : \A t \in TokensSeen : ~Contains(PassLog[n], t.s)

\* the update line of a row shows the whole access token the row held: the
\* token has no more than 20 characters, so its preview is the token
C21_FullTokenInLog ==
    /\ pc = "done"
    /\ log = "Success"
    /\ \E i \in Rows0 : \E n \in 1..Len(PassLog) :
         /\ HoldsAccessToken(store0, i)
         /\ store0[i].value.doc.accessToken.k = "str"
         /\ Len(store0[i].value.doc.accessToken.s) \in 1..PreviewLen
         /\ PassLog[n].fmt = "update"
         /\ PassLog[n].args[1] = store0[i].key
         /\ PassLog[n].args[2] = store0[i].value.doc.accessToken.s \o "..."

-----------------------------------------------------------------------------
(* JWTAnalyzer.decode_jwt_payload (jwt_decoder.py).  A token is the list   *)
(* of its '.'-separated segments, as jwt_token.split('.') gives them; a    *)
(* segment is its number of base64 data characters, the number of '='      *)
(* characters after them, and what the bytes they encode are.              *)

MaxSegments == 4    \* segments of a token
MaxChars == 8       \* base64 data characters of a segment

\* len(parts) != 3
JwtParts == 3
\* the base64 quantum of '=' * (4 - len(payload) % 4)
PadUnit == 4

\* what the decoded bytes of a segment are: a JSON text of some type,
\* text that is not JSON, bytes that are not UTF-8, or no bytes at all
JsonTypes == {"object", "array", "number", "string", "null", "true"}
ByteKinds == JsonTypes \cup {"notjson", "notutf8", "empty"}

\* the shortest text of each kind: {} [] 1 "" null true
MinBytes(kind) ==
    IF kind = "empty" THEN 0
    ELSE IF kind \in {"null", "true"} THEN 4
    ELSE IF kind \in {"object", "array", "string"} THEN 2
    ELSE 1

\* the number of bytes d base64 characters encode
ByteCount(d) == (d * 3) \div 4

Segments ==
    { seg \in [data : 0..MaxChars, pad : 0..2, bytes : ByteKinds] :
        IF ByteCount(seg.data) = 0 THEN seg.bytes = "empty"
        ELSE seg.bytes # "empty" /\ MinBytes(seg.bytes) <= ByteCount(seg.data) }

\* the header and the signature play no part
PlainSegment == [data |-> 4, pad |-> 0, bytes |-> "notjson"]

JwtText(parts) == [k |-> "str", parts |-> parts]

\* the arguments explored: texts of one to MaxSegments segments, and
\* arguments that are no text at all (None, a number)
JwtInputs ==
    { JwtText(<<PlainSegment, seg, PlainSegment>>) : seg \in Segments }
    \cup { JwtText([i \in 1..n |-> seg]) :
             n \in (1..MaxSegments) \ {JwtParts},
             seg \in {PlainSegment, [data |-> 3, pad |-> 0, bytes |-> "object"]} }
    \cup { [k |-> "none", parts |-> <<>>], [k |-> "int", parts |-> <<>>] }

\* payload += '=' * (4 - len(payload) % 4)
Padded(seg) ==
    [seg EXCEPT !.pad = seg.pad + (PadUnit - ((seg.data + seg.pad) % PadUnit))]

\* base64.urlsafe_b64decode raises binascii.Error: one data character more
\* than a multiple of 4, or less padding than the last quantum needs
B64Raises(seg) ==
    \/ seg.data % PadUnit = 1
    \/ seg.data % PadUnit = 2 /\ seg.pad < 2
    \/ seg.data % PadUnit = 3 /\ seg.pad < 1

JwtReturn(claims, error) == [claims |-> claims, error |-> error]

(* decode_jwt_payload(jwt_token): the pair it returns.  "MalformedToken"   *)
(* is the message "不是有效的JWT格式", "PayloadNotJSON" is "解码失败: ..." of  *)
(* the except clause; claims is the Python type of decoded_json, the JSON  *)
(* text null decoding to None.                                             *)
decode_jwt_payload(jwt_token) ==
    IF jwt_token.k # "str"
    THEN \* jwt_token.split raises AttributeError
         JwtReturn("None", "PayloadNotJSON")
    ELSE IF Len(jwt_token.parts) # JwtParts
    THEN JwtReturn("None", "MalformedToken")
    ELSE IF B64Raises(Padded(jwt_token.parts[2]))
    THEN JwtReturn("None", "PayloadNotJSON")
    ELSE IF jwt_token.parts[2].bytes \in {"notutf8", "notjson", "empty"}
    THEN \* decode('utf-8') or json.loads raises
         JwtReturn("None", "PayloadNotJSON")
    ELSE IF jwt_token.parts[2].bytes = "null"
    THEN JwtReturn("None", "None")
    ELSE JwtReturn(jwt_token.parts[2].bytes, "None")

\* everything that is not decode_jwt_payload's
JwtFrame ==
    UNCHANGED <<store, now, ticks, passes, pc, token_info, needs,
                new_token_data, result, log, writes, expire_time, store0,
                checkedAt, persistedAt, dbOk, http, fault, lastRenewal,
                daemon, conns, fetched, foreign>>

JwtInit ==
    /\ store = <<>>
    /\ store0 = <<>>
    /\ now = Now0
    /\ ticks = 0
    /\ passes = 0
    /\ pc = "idle"
    /\ lastRenewal = <<>>
    /\ daemon = NoDaemon
    /\ PassLocalsInit
    /\ conns = {}
    /\ fetched = <<>>
    /\ foreign = {}
    /\ \E t \in JwtInputs :
         jwt = [at |-> "called", jwt_token |-> t, claims |-> "None",
                error |-> "None"]

\* payload, error = JWTAnalyzer.decode_jwt_payload(token)
Decode ==
    /\ jwt.at = "called"
    /\ jwt' = [jwt EXCEPT !.at = "returned",
                          !.claims = decode_jwt_payload(jwt.jwt_token).claims,
                          !.error = decode_jwt_payload(jwt.jwt_token).error]
    /\ JwtFrame

JwtNext == Decode

SpecJwt == JwtInit /\ [][JwtNext]_vars

\* the argument is a text of exactly three segments
ThreeSegments ==
    jwt.jwt_token.k = "str" /\ Len(jwt.jwt_token.parts) = JwtParts

\* ... whose payload segment decodes to the text of a JSON object
PayloadIsObject ==
    /\ ThreeSegments
    /\ jwt.jwt_token.parts[2].data % PadUnit # 1
    /\ jwt.jwt_token.parts[2].bytes = "object"

(* C22 as stated: decode_jwt_payload returns claims and no error only for  *)
(* a token of exactly three segments whose payload decodes to a JSON       *)
(* object, the claims then being a mapping; for every other input it       *)
(* returns an error and no claims, MalformedToken for a text of fewer or   *)
(* more segments and PayloadNotJSON for a payload that is not a JSON       *)
(* object.                                                                 *)
C22_Original ==
    jwt.at = "returned" =>
        /\ jwt.error = "None" => PayloadIsObject /\ jwt.claims = "object"
        /\ ~PayloadIsObject => jwt.error # "None" /\ jwt.claims = "None"
        /\ (jwt.jwt_token.k = "str" /\ ~ThreeSegments) =>
               jwt.error = "MalformedToken"
        /\ (ThreeSegments /\ ~PayloadIsObject) => jwt.error = "PayloadNotJSON"

\* a payload that is the JSON text of an array comes back as the claims,
\* with no error
C22_ArrayReturnedAsClaims ==
    /\ jwt.at = "returned"
    /\ ThreeSegments
    /\ jwt.jwt_token.parts[2].bytes = "array"
    /\ jwt.error = "None"
    /\ jwt.claims = "array"

-----------------------------------------------------------------------------
(* Atomicity of update_token_in_db *)

\* the row loop of the update this pass made, as it ran over the table
UpdateRun ==
    UpdateRows(SelectRows(store0, 1), 1, new_token_data, persistedAt,
               [pending |-> <<>>, raised |-> FALSE,
                updateFails |-> (fault = "update")])

\* row i is one the update rewrites: selected, a JSON object, with accessToken
Eligible(i) == HoldsAccessToken(store0, i)

\* row i holds what the update writes for it
Renewed(i) ==
    store[i].value = json_dumps(UpdatedData(RowData(store0[i].value),
                                            new_token_data, persistedAt))

(* C23: whatever ends update_token_in_db (a row that raises after earlier  *)
(* rows were rewritten, an UPDATE or the commit refused by sqlite3), the   *)
(* table afterwards either has every eligible row renewed or is the table  *)
(* the pass began with.                                                    *)
C23_PersistAllOrNothing ==
    pc = "done" =>
        \/ store = store0
        \/ /\ SameKeys(store, store0)
           /\ \A i \in Rows0 : Eligible(i) => Renewed(i)

\* the loop was left by an exception after the UPDATE of an earlier row had
\* run, and the table is as it was
C23_Witness ==
    /\ pc = "done"
    /\ Persisted
    /\ fault = "none"
    /\ UpdateRun.raised
    /\ Len(UpdateRun.pending) >= 1
    /\ \E i \in Rows0 : Eligible(i) /\ ~Renewed(i)
    /\ store = store0

-----------------------------------------------------------------------------
(* The refresh token after a renewal *)

\* what get_current_tokens gives for the table as it is now
NextLoad == get_current_tokens(store, TRUE)

(* C26 as stated: after a pass that succeeded with a response carrying a   *)
(* refresh_token, the next scan of the unchanged table gives that value as *)
(* refresh_token, wherever the table keeps refreshToken and accessToken.   *)
C26_Original ==
    (pc = "done" /\ log = "Success" /\ Has(new_token_data.refresh_token)) =>
        NextLoad.refresh_token = new_token_data.refresh_token

\* a later pass sends R1 to the endpoint although an earlier pass stored
\* the R2 that replaced it: R2 went into the record with accessToken, while
\* the scan takes refresh_token from a later record that has none
C26_SupersededTokenSentAgain ==
    /\ passes >= 1
    /\ HttpCalled
    /\ token_info.refresh_token = Str("R1")
    /\ \E i \in Rows0 : \E j \in Rows0 :
         /\ i < j
         /\ HoldsAccessToken(store0, i)
         /\ store0[i].value.fmt = "py"
         /\ store0[i].value.doc.refreshToken = Str("R2")
         /\ IsObjectRow(store0, j)
         /\ ~HoldsAccessToken(store0, j)
         /\ store0[j].value.doc.refreshToken = Str("R1")

-----------------------------------------------------------------------------
(* The store as the process and its neighbours see it: the connections     *)
(* the two scans open, the window between the SELECT and the UPDATEs of    *)
(* update_token_in_db, and another process (Cursor itself) that rewrites a *)
(* record.  sqlite3 begins a transaction before the first UPDATE only, so  *)
(* the write lock is held from the first UPDATE to the commit or rollback. *)

MaxForeign == 1     \* records the other process rewrites during a pass

\* the record as the owning application writes it after its own renewal
ForeignValue ==
    AppText(Obj(Str("APP"), Str("R9"), Num(Ms(Now0 + 30 * Day)), Absent,
                Str("user2")))

StoreTables ==
    { <<>>,
      <<[key |-> "cursorAuth/state", value |-> SqlInt]>>,
      <<[key |-> "cursorAuth/state",
         value |-> AppText(Obj(Str("OLD"), Str("R1"), Num(Ms(Now0 + Day)),
                               Absent, Str("user")))]>>,
      <<[key |-> "cursorAuth/state",
         value |-> AppText(Obj(Str("OLD"), Str("R1"), Num(Ms(Now0 + Day)),
                               Absent, Str("user")))],
        [key |-> "workbench.tokenCache",
         value |-> AppText(Obj(Num(123), Str("R1"), Absent, Absent, Absent))]>>,
      <<[key |-> "cursorAuth/state",
         value |-> AppText(Obj(Str("OLD"), Str("R1"), Num(Ms(Now0 + Day)),
                               Absent, Str("user")))],
        [key |-> "workbench.tokenCache",
         value |-> AppText(Obj(Str("OLD3"), Absent, Absent,
                               Num(Now0 + 9 * Day), Str("user")))]>> }

(* A connection: the function that opened it, whether it has an open       *)
(* transaction (and with it the write lock), whether the function is still *)
(* running (held), and the pass it belongs to.  A connection whose         *)
(* function was left by an exception was never closed: it stays open until *)
(* the interpreter finalises it.                                           *)
Connection(by, txn, held) ==
    [by |-> by, txn |-> txn, held |-> held, pass |-> passes]

\* a connection left behind still has its transaction open
WriteLockKept == \E c \in conns : c.txn /\ ~c.held

\* lines 158-166 after the row loop: commit and close, or the handler
UpdateEnds(run, table, err) ==
    IF run.raised \/ err = "commit"
    THEN [table |-> table, written |-> 0, ret |-> FALSE,
          raised |-> TRUE, txn |-> Len(run.pending) > 0]
    ELSE [table |-> Commit(table, run.pending, 1),
          written |-> Len(run.pending),
          ret |-> UpdateReturn(Len(run.pending)),
          raised |-> FALSE, txn |-> FALSE]

\* mutant: the rows are read again inside the transaction, under the lock
UpdateFetched_Reread(rows, table, new, clock, err) ==
    UpdateEnds(UpdateRows(SelectRows(table, 1), 1, new, clock,
                   [pending |-> <<>>, raised |-> FALSE,
                    updateFails |-> (err = "update")]),
               table, err)

\* update_token_in_db from `updated_count = 0` on: the loop over the rows
\* fetchall() returned, applied to the table as it is by then
UpdateFetched(rows, table, new, clock, err) ==
    UpdateEnds(UpdateRows(rows, 1, new, clock,
                   [pending |-> <<>>, raised |-> FALSE,
                    updateFails |-> (err = "update")]),
               table, err)

\* with nobody writing in between, the two halves are update_token_in_db
UpdateIsSelectThenWrite ==
    \A err \in StoreFaults \ {"connect"} :
        LET whole == update_token_in_db(store, new_token_data, now, err)
            halves == UpdateFetched(SelectRows(store, 1), store,
                                    new_token_data, now, err)
        IN /\ whole.table = halves.table
           /\ whole.written = halves.written
           /\ whole.ret = halves.ret

StoreInit ==
    /\ store \in StoreTables
    /\ store0 = store
    /\ now = Now0
    /\ ticks = 0
    /\ passes = 0
    /\ pc = "idle"
    /\ lastRenewal = <<>>
    /\ daemon = NoDaemon
    /\ NoSideState
    /\ PassLocalsInit

\* get_current_tokens, with its connection: closed at line 51, left open
\* when json.loads raises inside the loop; sqlite3.connect itself raising
\* (ok = FALSE) opens none
Scan ==
    /\ pc = "idle"
    /\ passes < MaxPasses
    /\ \E ok \in BOOLEAN :
         /\ dbOk' = ok
         /\ token_info' = get_current_tokens(store, ok)
         /\ conns' = IF ok /\ ScanRaises(SelectRows(store, 1))
                     THEN conns \cup {Connection("scan", FALSE, FALSE)}
                     ELSE conns
    /\ store0' = store
    /\ foreign' = {}
    /\ pc' = "loaded"
    /\ UNCHANGED <<store, now, ticks, passes, needs, new_token_data, result,
                   log, writes, expire_time, checkedAt, persistedAt, http,
                   fault, lastRenewal, daemon, jwt, fetched>>

\* update_token_in_db, lines 118-123: connect, SELECT, fetchall
Select ==
    /\ pc = "persisting"
    /\ \E err \in {"none", "connect"} :
         IF err = "connect"
         THEN /\ result' = "False"
              /\ log' = "NoRecordsUpdated"
              /\ fault' = "connect"
              /\ persistedAt' = now
              /\ pc' = "done"
              /\ UNCHANGED <<conns, fetched>>
         ELSE /\ conns' = conns \cup {Connection("update", FALSE, TRUE)}
              /\ fetched' = SelectRows(store, 1)
              /\ pc' = "selected"
              /\ UNCHANGED <<result, log, fault, persistedAt>>
    /\ UNCHANGED <<store, now, ticks, passes, token_info, needs,
                   new_token_data, writes, expire_time, store0, checkedAt,
                   dbOk, http, lastRenewal, daemon, jwt, foreign>>

\* what WriteBack leaves once the rest of update_token_in_db has run
WriteBackEnds(upd, err) ==
    /\ store' = upd.table
    /\ writes' = upd.written
    /\ fault' = err
    /\ IF upd.ret
       THEN result' = "True" /\ log' = "Success"
       ELSE result' = "False" /\ log' = "NoRecordsUpdated"
    /\ conns' = {c \in conns : ~c.held}
                \cup (IF upd.raised
                      THEN {Connection("update", upd.txn, FALSE)}
                      ELSE {})

\* update_token_in_db, lines 125-166: the row loop over the fetched rows,
\* commit and close.  While a connection left behind keeps the write lock,
\* the first UPDATE is refused ("database is locked").
WriteBack ==
    /\ pc = "selected"
    /\ \E err \in StoreFaults \ {"connect"} :
         /\ WriteLockKept => err = "update"
         /\ WriteBackEnds(UpdateFetched(fetched, store, new_token_data, now,
                                        err), err)
    /\ persistedAt' = now
    /\ pc' = "done"
    /\ UNCHANGED <<now, ticks, passes, token_info, needs, new_token_data,
                   expire_time, store0, checkedAt, dbOk, http, lastRenewal,
                   daemon, jwt, fetched, foreign>>

\* another process gives a record the scans select a new value, while this
\* process holds no write lock
OtherWrite ==
    /\ pc \in {"loaded", "refreshing", "persisting", "selected"}
    /\ Cardinality(foreign) < MaxForeign
    /\ ~\E c \in conns : c.txn
    /\ \E i \in 1..Len(store) :
         /\ MatchesFilter(store[i].key)
         /\ store[i].key \notin {f.key : f \in foreign}
         /\ store[i].value # ForeignValue
         /\ store' = [store EXCEPT ![i].value = ForeignValue]
         /\ foreign' = foreign \cup {[key |-> store[i].key, at |-> pc]}
    /\ UNCHANGED <<now, ticks, passes, pc, token_info, needs, new_token_data,
                   result, log, writes, expire_time, store0, checkedAt,
                   persistedAt, dbOk, http, fault, lastRenewal, daemon, jwt,
                   conns, fetched>>

\* the interpreter finalises the connections left behind: they are closed
\* and what they had not committed is rolled back
Collect ==
    /\ \E c \in conns : ~c.held
    /\ conns' = {c \in conns : c.held}
    /\ UNCHANGED <<store, now, ticks, passes, pc, token_info, needs,
                   new_token_data, result, log, writes, expire_time, store0,
                   checkedAt, persistedAt, dbOk, http, fault, lastRenewal,
                   daemon, jwt, fetched, foreign>>

StoreNext ==
    \/ Scan
    \/ LoadFailed
    \/ MissingRefreshToken
    \/ Decide
    \/ Refresh
    \/ Select
    \/ WriteBack
    \/ OtherWrite
    \/ Collect
    \/ Return

SpecStore == StoreInit /\ [][StoreNext]_vars

\* the value update_token_in_db read for a key
FetchedValue(key) ==
    fetched[CHOOSE j \in 1..Len(fetched) : fetched[j].key = key].value

\* the pass committed an UPDATE of the key
WroteKey(key) ==
    /\ pc = "done"
    /\ writes >= 1
    /\ \E j \in 1..Len(fetched) :
         /\ fetched[j].key = key
         /\ RowOutcome(fetched[j].value, new_token_data, FALSE) = "write"

(* C24: when another process has rewritten a record during the pass and    *)
(* the pass then commits its UPDATE of the same key, nothing notices: the  *)
(* pass returns True, and the record holds what update_token_in_db made of *)
(* the value it had read itself.  If the other write came after that read  *)
(* (between fetchall and the first UPDATE), the value read is the one the  *)
(* pass began with and the other process's value is gone altogether; if it *)
(* came earlier, after get_current_tokens, the tokens written are those    *)
(* obtained with the refresh token read before it.                         *)
C24_LostUpdateUnhandled ==
    pc = "done" =>
        \A f \in foreign : \A i \in 1..Len(store) :
            (store[i].key = f.key /\ WroteKey(f.key)) =>
                /\ result = "True"
                /\ log = "Success"
                /\ store[i].value =
                       json_dumps(UpdatedData(RowData(FetchedValue(f.key)),
                                              new_token_data, persistedAt))
                /\ token_info = get_current_tokens(store0, dbOk)
                /\ f.at = "selected" =>
                       /\ FetchedValue(f.key) = store0[i].value
                       /\ FetchedValue(f.key) # ForeignValue
                /\ f.at # "selected" =>
                       /\ FetchedValue(f.key) = ForeignValue
                       /\ Has(new_token_data.access_token) =>
                              store[i].value.doc.accessToken =
                                  new_token_data.access_token

\* the other process rewrote the record between fetchall and the UPDATE;
\* the record now holds the renewed form of the value read before that,
\* and the pass ended in success
C24_Witness ==
    /\ pc = "done"
    /\ result = "True"
    /\ log = "Success"
    /\ \E f \in foreign : \E i \in 1..Len(store) :
         /\ f.at = "selected"
         /\ store[i].key = f.key
         /\ store0[i].value.doc.accessToken = Str("OLD")
         /\ store[i].value =
                json_dumps(UpdatedData(store0[i].value.doc, new_token_data,
                                       persistedAt))
         /\ store[i].value.doc.accessToken = Str("NEW")
         /\ store[i].value.doc.refreshToken = Str("R1")
         /\ store[i].value.doc.other = Str("user")

(* C25 as stated: while the request to the endpoint is in flight the       *)
(* process has no store connection open, and so no open transaction.       *)
C25_Original == pc = "refreshing" => conns = {}

\* the request of a later pass is in flight while the connection of an
\* earlier update, left by an exception after its first UPDATE, is still
\* open with its transaction
C25_OpenTransactionDuringCall ==
    /\ pc = "refreshing"
    /\ \E c \in conns :
         /\ c.by = "update"
         /\ c.txn
         /\ ~c.held
         /\ c.pass < passes

====
